---- MODULE Spec2Model ----
(***************************************************************************)
(* Model of the cleaning pipeline of auto-report-generator                 *)
(* (src/src/cleaner.py).                                                   *)
(*                                                                         *)
(* Text is a sequence of one-character strings, so that trimming,          *)
(* lower-casing, filtering and splitting are computed character by         *)
(* character as the Python code computes them.  A float is a decimal       *)
(* [nan, n, e] standing for n / 10^e (NaN/None when nan is TRUE).          *)
(***************************************************************************)
EXTENDS Integers, Sequences, FiniteSets, TLC

VARIABLES
    df_raw,      \* the table handed to clean_sales_dataframe
    cfg,         \* the CleaningConfig handed to it
    clean_ret,   \* what the call returned or raised
    clean_loc,   \* its locals: canonical_sources, passthrough_cols, df, out as first
                 \* built and out as normalized, before duplicates are dropped
    amt_x,       \* argument of the last _parse_amount_value call
    amt_ret,     \* what that call returned
    amt_done,    \* TRUE once the call has returned
    op,          \* the other operation that is called, "idle" when none is
    arg,         \* the argument the caller passed to it
    arg_after,   \* the caller's argument object as the call left it
    ret,         \* what the call returned
    done         \* TRUE once the call has returned

cleanVars == <<df_raw, cfg, clean_ret, clean_loc>>

amountVars == <<amt_x, amt_ret, amt_done>>

callVars == <<op, arg, arg_after, ret, done>>

vars == <<df_raw, cfg, clean_ret, clean_loc, amt_x, amt_ret, amt_done,
          op, arg, arg_after, ret, done>>

\* no call of the other operations is under way
CallIdle ==
    /\ op = "idle"
    /\ arg = <<>>
    /\ arg_after = <<>>
    /\ ret = <<>>
    /\ done = FALSE

(***************************************************************************)
(* Bounds of the model.                                                    *)
(***************************************************************************)
MaxAmountLen == 4

MaxRows == 3

MaxCols == 5

(***************************************************************************)
(* Python str primitives.                                                  *)
(***************************************************************************)
\* the list with the items f[1], ..., f[n], each computed once
List(f) == <<>> \o f

\* the dict with the values f[k], each computed once
Dict(f) == f @@ <<>>

Whitespace == {" ", "\t", "\n"}

Digits == {"0", "1", "2", "3", "4", "5", "6", "7", "8", "9"}

DigitVal(ch) ==
    CASE ch = "0" -> 0 [] ch = "1" -> 1 [] ch = "2" -> 2 [] ch = "3" -> 3
      [] ch = "4" -> 4 [] ch = "5" -> 5 [] ch = "6" -> 6 [] ch = "7" -> 7
      [] ch = "8" -> 8 [] ch = "9" -> 9

\* str.lower() on one character
LowerChar(ch) ==
    CASE ch = "A" -> "a" [] ch = "B" -> "b" [] ch = "C" -> "c" [] ch = "D" -> "d"
      [] ch = "E" -> "e" [] ch = "F" -> "f" [] ch = "G" -> "g" [] ch = "H" -> "h"
      [] ch = "I" -> "i" [] ch = "J" -> "j" [] ch = "K" -> "k" [] ch = "L" -> "l"
      [] ch = "M" -> "m" [] ch = "N" -> "n" [] ch = "O" -> "o" [] ch = "P" -> "p"
      [] ch = "Q" -> "q" [] ch = "R" -> "r" [] ch = "S" -> "s" [] ch = "T" -> "t"
      [] ch = "U" -> "u" [] ch = "V" -> "v" [] ch = "W" -> "w" [] ch = "X" -> "x"
      [] ch = "Y" -> "y" [] ch = "Z" -> "z"
      [] OTHER -> ch

Lower(s) == List([i \in 1..Len(s) |-> LowerChar(s[i])])

RECURSIVE LStrip(_)
LStrip(s) ==
    IF s # <<>> /\ Head(s) \in Whitespace THEN LStrip(Tail(s)) ELSE s

RECURSIVE RStrip(_)
RStrip(s) ==
    IF s # <<>> /\ s[Len(s)] \in Whitespace
    THEN RStrip(SubSeq(s, 1, Len(s) - 1))
    ELSE s

\* str.strip()
Strip(s) == RStrip(LStrip(s))

\* ch in s
Contains(s, ch) == \E i \in 1..Len(s) : s[i] = ch

\* s.count(ch)
Count(s, ch) == Cardinality({i \in 1..Len(s) : s[i] = ch})

\* s.rfind(ch): 0-based index of the last occurrence, -1 when there is none
RFind(s, ch) ==
    IF Contains(s, ch)
    THEN (CHOOSE i \in 1..Len(s) : s[i] = ch /\ \A j \in (i + 1)..Len(s) : s[j] # ch) - 1
    ELSE -1

\* s.replace(ch, "")
RECURSIVE Remove(_, _)
Remove(s, ch) ==
    IF s = <<>> THEN <<>>
    ELSE IF Head(s) = ch THEN Remove(Tail(s), ch)
    ELSE <<Head(s)>> \o Remove(Tail(s), ch)

\* s.replace(a, b) for single characters
ReplaceChar(s, a, b) == List([i \in 1..Len(s) |-> IF s[i] = a THEN b ELSE s[i]])

\* s.replace("--", "-"): non-overlapping occurrences, scanned left to right
RECURSIVE ReplaceDoubleMinus(_)
ReplaceDoubleMinus(s) ==
    IF Len(s) < 2 THEN s
    ELSE IF s[1] = "-" /\ s[2] = "-"
         THEN <<"-">> \o ReplaceDoubleMinus(SubSeq(s, 3, Len(s)))
         ELSE <<s[1]>> \o ReplaceDoubleMinus(Tail(s))

(***************************************************************************)
(* Floats.                                                                 *)
(***************************************************************************)
NoneF == [nan |-> TRUE, n |-> 0, e |-> 0]

RECURSIVE Normalize(_, _)
Normalize(n, e) ==
    IF e > 0 /\ n % 10 = 0 THEN Normalize(n \div 10, e - 1)
    ELSE [nan |-> FALSE, n |-> n, e |-> e]

Float(n, e) == Normalize(n, e)

NegF(f) == IF f.nan THEN f ELSE [f EXCEPT !.n = 0 - f.n]

\* integer value of a string of digits ("" is 0)
RECURSIVE DigitsVal(_)
DigitsVal(s) ==
    IF s = <<>> THEN 0
    ELSE 10 * DigitsVal(SubSeq(s, 1, Len(s) - 1)) + DigitVal(s[Len(s)])

AllDigits(s) == \A i \in 1..Len(s) : s[i] \in Digits

\* float(s) of a text over digits, '.', ',' and '-': an optional leading minus,
\* then digits with at most one dot and at least one digit; ValueError otherwise
UnsignedFloat(s) ==
    LET body == Remove(s, ".") IN
    IF Count(s, ".") <= 1 /\ body # <<>> /\ AllDigits(body)
    THEN Float(DigitsVal(body),
               IF Contains(s, ".") THEN Len(s) - (RFind(s, ".") + 1) ELSE 0)
    ELSE NoneF

PyFloat(s) ==
    IF s # <<>> /\ Head(s) = "-" THEN NegF(UnsignedFloat(Tail(s)))
    ELSE UnsignedFloat(s)

(***************************************************************************)
(* _parse_amount_value                                                     *)
(***************************************************************************)
\* the character U+2014 (em dash), written as one character of a text
EmDash == "EMDASH"

_BAD_AMOUNT_TOKENS ==
    { <<>>, <<"n", "/", "a">>, <<"n", "a">>, <<"n", "o", "n", "e">>,
      <<"n", "a", "n">>, <<EmDash>>, <<"-">>, <<"f", "r", "e", "e">> }

AmountKeep == Digits \cup {".", ",", "-"}

\* re.sub(r"[^\d\.,\-]+", "", s)
KeepAmountChars(s) == SelectSeq(s, LAMBDA ch : ch \in AmountKeep)

\* the text after the last comma: s.split(",")[-1]
LastPart(s) == SubSeq(s, RFind(s, ",") + 2, Len(s))

\* "".join(s.split(",")[:-1])
JoinedFront(s) == Remove(SubSeq(s, 1, RFind(s, ",")), ",")

\* a parser that takes every comma for a thousands separator
Separators_CommaThousands(s) == Remove(s, ",")

Separators(s) ==
    IF Contains(s, ",") /\ Contains(s, ".")
    THEN IF RFind(s, ",") > RFind(s, ".")
         THEN ReplaceChar(Remove(s, "."), ",", ".")
         ELSE Remove(s, ",")
    ELSE IF Contains(s, ",") /\ ~Contains(s, ".")
         THEN IF Len(LastPart(s)) = 2
              THEN JoinedFront(s) \o <<".">> \o LastPart(s)
              ELSE Remove(s, ",")
         ELSE s

\* a parser that keeps a leading minus when it strips the extra ones
MinusSigns_KeepLeading(s) ==
    LET s1 == ReplaceDoubleMinus(s) IN
    IF Count(s1, "-") > 1
    THEN IF Head(s1) = "-" THEN <<"-">> \o Remove(s1, "-") ELSE Remove(s1, "-")
    ELSE s1

MinusSigns(s) ==
    LET s1 == ReplaceDoubleMinus(s) IN
    IF Count(s1, "-") > 1 THEN Remove(s1, "-") ELSE s1

Parenthesized(s) == Contains(s, "(") /\ Contains(s, ")")

ApplyNegative(negative, s) ==
    IF negative /\ ~(s # <<>> /\ Head(s) = "-") THEN <<"-">> \o s ELSE s

\* the str branch of _parse_amount_value
ParseAmountText(x) ==
    LET s0 == Strip(x)
        low == Strip(Lower(s0))
        negative == Parenthesized(s0)
        s1 == Strip(IF negative THEN Remove(Remove(s0, "("), ")") ELSE s0)
        s2 == KeepAmountChars(s1)
        s3 == Separators(s2)
        s4 == MinusSigns(s3)
        s5 == ApplyNegative(negative, s4)
    IN  IF s0 = <<>> THEN NoneF
        ELSE IF low \in _BAD_AMOUNT_TOKENS THEN NoneF
        ELSE PyFloat(s5)

(***************************************************************************)
(* Cells: a string, a number or missing (None / NaN / pd.NA).              *)
(***************************************************************************)
NA == [t |-> "na", s |-> <<>>, v |-> NoneF]

Txt(s) == [t |-> "str", s |-> s, v |-> NoneF]

Num(f) == [t |-> "num", s |-> <<>>, v |-> f]

IsNull(c) == c.t = "na"

_parse_amount_value(x) ==
    IF x.t = "na" THEN NoneF
    ELSE IF x.t = "num" THEN x.v
    ELSE ParseAmountText(x.s)

(***************************************************************************)
(* Calls of _parse_amount_value on texts over a small alphabet, on the     *)
(* documented examples, on every bad token in several spellings, and on    *)
(* numbers and missing values.                                             *)
(***************************************************************************)
AmountAlphabet == {"2", "5", ",", ".", "-", "(", ")", " ", "$"}

TextsUpTo(A, n) == UNION {[1..k -> A] : k \in 0..n}

Upper(s) ==
    List([i \in 1..Len(s) |->
            CASE s[i] = "n" -> "N" [] s[i] = "a" -> "A" [] s[i] = "o" -> "O"
              [] s[i] = "e" -> "E" [] s[i] = "f" -> "F" [] s[i] = "r" -> "R"
              [] OTHER -> s[i]])

BadTokenSpellings ==
    UNION {{tok, Upper(tok), <<" ">> \o tok \o <<" ">>, <<"\t">> \o Upper(tok),
            <<"(">> \o tok \o <<")">>}
           : tok \in _BAD_AMOUNT_TOKENS}

Ex_Dollar == <<"$", "1", ",", "2", "3", "4", ".", "5", "6">>

Ex_Lira == <<"1", ".", "2", "3", "4", ",", "5", "6", " ", "T", "L">>

Ex_Paren250 == <<"(", "2", "5", "0", ")">>

Ex_NA == <<"N", "/", "A">>

Ex_Dash == <<EmDash>>

Ex_Free == <<"f", "r", "e", "e">>

AmountExamples ==
    {Ex_Dollar, Ex_Lira, Ex_Paren250, Ex_NA, Ex_Dash, Ex_Free,
     <<"(", "1", ",", "2", "3", "4", ".", "5", "0", ")">>,
     <<"(", "$", "1", ".", "2", "3", "4", ",", "5", ")">>,
     <<"(", "(", "2", "5", ")", ")">>,
     <<"-", "2", ",", "-", "5">>, <<"2", "-", "5", "-", "2">>, <<"-", ".", "-">>}

AmountInputs ==
    {Txt(s) : s \in TextsUpTo(AmountAlphabet, MaxAmountLen)
                    \cup BadTokenSpellings \cup AmountExamples}
    \cup {NA, Num(Float(250, 0)), Num(Float(-125, 1))}

(***************************************************************************)
(* Column labels: _CANONICAL_COLS, _SYNONYMS, _normalize_col               *)
(***************************************************************************)
OrderDate == <<"o", "r", "d", "e", "r", "_", "d", "a", "t", "e">>

CustomerName == <<"c", "u", "s", "t", "o", "m", "e", "r", "_", "n", "a", "m", "e">>

Product == <<"p", "r", "o", "d", "u", "c", "t">>

Category == <<"c", "a", "t", "e", "g", "o", "r", "y">>

Amount == <<"a", "m", "o", "u", "n", "t">>

PaymentStatus == <<"p", "a", "y", "m", "e", "n", "t", "_", "s", "t", "a", "t", "u", "s">>

City == <<"c", "i", "t", "y">>

Country == <<"c", "o", "u", "n", "t", "r", "y">>

_SYNONYMS ==
    {<<<<"o", "r", "d", "e", "r", "_", "d", "a", "t", "e">>, OrderDate>>,
     <<<<"o", "r", "d", "e", "r", "d", "a", "t", "e">>, OrderDate>>,
     <<<<"d", "a", "t", "e">>, OrderDate>>,
     <<<<"c", "r", "e", "a", "t", "e", "d", "_", "a", "t">>, OrderDate>>,
     <<<<"c", "r", "e", "a", "t", "e", "d", "a", "t">>, OrderDate>>,
     <<<<"o", "r", "d", "e", "r", "_", "d", "a", "t", "e", "_">>, OrderDate>>,
     <<<<"o", "r", "d", "e", "r", "d", "a", "t", "e", "_">>, OrderDate>>,
     <<<<"o", "r", "d", "e", "r", "_", "d", "a", "t", "e", "_", "_">>, OrderDate>>,
     <<<<"o", "r", "d", "e", "r", "_", "d", "a", "t", "e", "_", "_", " ">>, OrderDate>>,
     <<<<"o", "r", "d", "e", "r", "_", "d", "a", "t", "e", "_", "_", " ", " ">>, OrderDate>>,
     <<<<"o", "r", "d", "e", "r", "_", "d", "a", "t", "e", "_", "_", "_">>, OrderDate>>,
     <<<<"o", "r", "d", "e", "r", "_", "d", "a", "t", "e", "_", "_", "_", " ">>, OrderDate>>,
     <<<<"o", "r", "d", "e", "r", "_", "d", "a", "t", "e", "_", "_", "_", " ", " ">>, OrderDate>>,
     <<<<"o", "r", "d", "e", "r", "_", "d", "a", "t", "e", "_", "_", "_", "_">>, OrderDate>>,
     <<<<"o", "r", "d", "e", "r", " ", "d", "a", "t", "e">>, OrderDate>>,
     <<<<"c", "u", "s", "t", "o", "m", "e", "r", "_", "n", "a", "m", "e">>, CustomerName>>,
     <<<<"c", "u", "s", "t", "o", "m", "e", "r">>, CustomerName>>,
     <<<<"c", "l", "i", "e", "n", "t">>, CustomerName>>,
     <<<<"p", "r", "o", "d", "u", "c", "t">>, Product>>,
     <<<<"p", "r", "o", "d", "u", "c", "t", "_", "n", "a", "m", "e">>, Product>>,
     <<<<"i", "t", "e", "m">>, Product>>,
     <<<<"c", "a", "t", "e", "g", "o", "r", "y">>, Category>>,
     <<<<"c", "a", "t", "e", "g", "o", "r", "y", "_", "n", "a", "m", "e">>, Category>>,
     <<<<"c", "a", "t">>, Category>>,
     <<<<"a", "m", "o", "u", "n", "t">>, Amount>>,
     <<<<"t", "o", "t", "a", "l">>, Amount>>,
     <<<<"p", "r", "i", "c", "e">>, Amount>>,
     <<<<"p", "a", "y", "m", "e", "n", "t", "_", "s", "t", "a", "t", "u", "s">>, PaymentStatus>>,
     <<<<"p", "a", "y", "m", "e", "n", "t">>, PaymentStatus>>,
     <<<<"s", "t", "a", "t", "u", "s">>, PaymentStatus>>,
     <<<<"c", "i", "t", "y">>, City>>,
     <<<<"c", "i", "t", "y", "_", "n", "a", "m", "e">>, City>>,
     <<<<"t", "o", "w", "n">>, City>>,
     <<<<"c", "o", "u", "n", "t", "r", "y">>, Country>>,
     <<<<"c", "o", "u", "n", "t", "r", "y", "_", "n", "a", "m", "e">>, Country>>}

_CANONICAL_COLS ==
    <<OrderDate, CustomerName, Product, Category, Amount, PaymentStatus, City, Country>>

CanonicalSet == {_CANONICAL_COLS[i] : i \in 1..Len(_CANONICAL_COLS)}

\* None, where the code has a canonical name or None
NoCanonical == <<>>

\* _SYNONYMS.get(norm)
SynonymsGet(norm) ==
    IF \E p \in _SYNONYMS : p[1] = norm
    THEN (CHOOSE p \in _SYNONYMS : p[1] = norm)[2]
    ELSE NoCanonical

LowerLetters ==
    {"a", "b", "c", "d", "e", "f", "g", "h", "i", "j", "k", "l", "m",
     "n", "o", "p", "q", "r", "s", "t", "u", "v", "w", "x", "y", "z"}

\* re.sub(r"[^a-z0-9]+", "_", s)
RECURSIVE SubNonAlnum(_)
SubNonAlnum(s) ==
    IF s = <<>> THEN <<>>
    ELSE IF Head(s) \in LowerLetters \cup Digits
         THEN <<Head(s)>> \o SubNonAlnum(Tail(s))
         ELSE IF Len(s) >= 2 /\ s[2] \notin LowerLetters \cup Digits
              THEN SubNonAlnum(Tail(s))
              ELSE <<"_">> \o SubNonAlnum(Tail(s))

\* re.sub(r"_+", "_", s)
RECURSIVE CollapseUnderscores(_)
CollapseUnderscores(s) ==
    IF Len(s) < 2 THEN s
    ELSE IF s[1] = "_" /\ s[2] = "_" THEN CollapseUnderscores(Tail(s))
    ELSE <<s[1]>> \o CollapseUnderscores(Tail(s))

\* s.strip("_")
RECURSIVE StripUnderscores(_)
StripUnderscores(s) ==
    IF s # <<>> /\ Head(s) = "_" THEN StripUnderscores(Tail(s))
    ELSE IF s # <<>> /\ s[Len(s)] = "_" THEN StripUnderscores(SubSeq(s, 1, Len(s) - 1))
    ELSE s

_normalize_col(name) ==
    StripUnderscores(CollapseUnderscores(SubNonAlnum(Lower(Strip(name)))))

(***************************************************************************)
(* _parse_dates.  pd.to_datetime(errors="coerce") is modelled on texts of  *)
(* the forms N/N/YYYY and YYYY-MM-DD (any other text is unparseable).  A   *)
(* single text is read with the day/month resolution of the date parser    *)
(* pandas delegates to: the first number is the month unless dayfirst asks *)
(* otherwise, and a number above 12 can only be the day.                   *)
(***************************************************************************)
DateCell(y, m, d) ==
    [t |-> "date", s |-> <<>>, v |-> [nan |-> FALSE, n |-> y * 10000 + m * 100 + d, e |-> 0]]

NaT == NA

IsLeap(y) == (y % 4 = 0 /\ y % 100 # 0) \/ y % 400 = 0

DaysIn(m, y) ==
    IF m = 2 THEN (IF IsLeap(y) THEN 29 ELSE 28)
    ELSE IF m \in {4, 6, 9, 11} THEN 30 ELSE 31

MakeDate(y, m, d) ==
    IF m \in 1..12 /\ d >= 1 /\ d <= DaysIn(m, y) THEN DateCell(y, m, d) ELSE NaT

\* s.split(sep) for a one-character separator
RECURSIVE Split(_, _)
Split(s, sep) ==
    IF ~Contains(s, sep) THEN <<s>>
    ELSE LET i == CHOOSE k \in 1..Len(s) : s[k] = sep /\ \A j \in 1..(k - 1) : s[j] # sep
         IN  <<SubSeq(s, 1, i - 1)>> \o Split(SubSeq(s, i + 1, Len(s)), sep)

IsNumberText(s) == s # <<>> /\ AllDigits(s)

ParseDateText(s0, dayfirst) ==
    LET s == Strip(s0)
        sl == Split(s, "/")
        da == Split(s, "-")
    IN  IF Len(sl) = 3 /\ \A i \in 1..3 : IsNumberText(sl[i])
        THEN LET a == DigitsVal(sl[1])
                 b == DigitsVal(sl[2])
                 y == DigitsVal(sl[3])
             IN  IF Len(sl[1]) > 2 \/ Len(sl[2]) > 2 \/ Len(sl[3]) # 4 \/ a > 31 THEN NaT
                 ELSE IF a > 12 \/ (dayfirst /\ b <= 12) THEN MakeDate(y, b, a)
                 ELSE MakeDate(y, a, b)
        ELSE IF Len(da) = 3 /\ (\A i \in 1..3 : IsNumberText(da[i]))
                /\ Len(da[1]) = 4 /\ Len(da[2]) = 2 /\ Len(da[3]) = 2
        THEN MakeDate(DigitsVal(da[1]), DigitsVal(da[2]), DigitsVal(da[3]))
        ELSE NaT

\* one value of pd.to_datetime(errors="coerce") when no format is in force
ToDatetimeValue(c, dayfirst) ==
    IF c.t = "str" THEN ParseDateText(c.s, dayfirst)
    ELSE IF c.t = "date" THEN c
    ELSE IF c.t = "num" /\ ~c.v.nan THEN DateCell(1970, 1, 1)
    ELSE NaT

\* pandas (2.0 and later, the versions that know format="mixed") guesses one
\* format from the first value that is neither null nor the empty text and
\* parses every value with it: the guess puts the day where the date parser
\* found it in that value.  "none" when the value does not parse.
NoFormat == "none"

GuessFormat(c, dayfirst) ==
    IF c.t # "str" \/ IsNull(ParseDateText(c.s, dayfirst)) THEN NoFormat
    ELSE LET sl == Split(Strip(c.s), "/") IN
         IF Len(sl) = 3
         THEN IF DigitsVal(sl[1]) > 12 \/ (dayfirst /\ DigitsVal(sl[2]) <= 12)
              THEN "%d/%m/%Y" ELSE "%m/%d/%Y"
         ELSE "%Y-%m-%d"

\* one text parsed with a format, null when it does not match
ParseWithFormat(s, format) ==
    LET sl == Split(s, "/")
        da == Split(s, "-")
    IN  IF format \in {"%d/%m/%Y", "%m/%d/%Y"}
        THEN IF Len(sl) = 3 /\ (\A i \in 1..3 : IsNumberText(sl[i]))
                /\ Len(sl[1]) <= 2 /\ Len(sl[2]) <= 2 /\ Len(sl[3]) = 4
             THEN IF format = "%d/%m/%Y"
                  THEN MakeDate(DigitsVal(sl[3]), DigitsVal(sl[2]), DigitsVal(sl[1]))
                  ELSE MakeDate(DigitsVal(sl[3]), DigitsVal(sl[1]), DigitsVal(sl[2]))
             ELSE NaT
        ELSE IF Len(da) = 3 /\ (\A i \in 1..3 : IsNumberText(da[i]))
                /\ Len(da[1]) = 4 /\ Len(da[2]) = 2 /\ Len(da[3]) = 2
        THEN MakeDate(DigitsVal(da[1]), DigitsVal(da[2]), DigitsVal(da[3]))
        ELSE NaT

IsBlankOrNull(c) == IsNull(c) \/ (c.t = "str" /\ c.s = <<>>)

\* the first value the format is guessed from, NA when there is none
FirstNonNullValue(series) ==
    IF \A i \in 1..Len(series) : IsBlankOrNull(series[i]) THEN NA
    ELSE series[CHOOSE i \in 1..Len(series) :
                    /\ ~IsBlankOrNull(series[i])
                    /\ \A j \in 1..(i - 1) : IsBlankOrNull(series[j])]

\* pd.to_datetime(series, errors="coerce", dayfirst=...)
ToDatetimeWith(series, dayfirst, format) ==
    List([i \in 1..Len(series) |->
            IF format # NoFormat /\ series[i].t = "str"
            THEN ParseWithFormat(series[i].s, format)
            ELSE ToDatetimeValue(series[i], dayfirst)])

ToDatetime(series, dayfirst) ==
    ToDatetimeWith(series, dayfirst, GuessFormat(FirstNonNullValue(series), dayfirst))

\* pd.to_datetime(series, errors="coerce", format="mixed"): value by value
ToDatetimeMixed(series) ==
    List([i \in 1..Len(series) |-> ToDatetimeValue(series[i], FALSE)])

\* s[missing_mask]
Masked(series, mask) ==
    LET idx == {i \in 1..Len(series) : mask[i]} IN
    List([k \in 1..Cardinality(idx) |->
            series[CHOOSE i \in idx : Cardinality({j \in idx : j <= i}) = k]])

\* parsed_1.loc[missing_mask] = parsed_2
Scatter(parsed_1, mask, parsed_2) ==
    List([i \in 1..Len(parsed_1) |->
            IF mask[i]
            THEN parsed_2[Cardinality({j \in 1..i : mask[j]})]
            ELSE parsed_1[i]])

ParseDatesSecondPass(series, parsed_1, missing_mask) ==
    IF \E i \in 1..Len(series) : missing_mask[i]
    THEN Scatter(parsed_1, missing_mask, ToDatetime(Masked(series, missing_mask), TRUE))
    ELSE parsed_1

ParseDatesFirstPass(series, parsed_1) ==
    ParseDatesSecondPass(series, parsed_1,
                         List([i \in 1..Len(series) |-> IsNull(parsed_1[i])]))

_parse_dates(series) == ParseDatesFirstPass(series, ToDatetime(series, FALSE))

(***************************************************************************)
(* _clean_text_series and _normalize_payment_status                        *)
(***************************************************************************)
RECURSIVE NatText(_)
NatText(n) ==
    LET d == <<"0", "1", "2", "3", "4", "5", "6", "7", "8", "9">> IN
    IF n < 10 THEN <<d[n + 1]>> ELSE NatText(n \div 10) \o <<d[(n % 10) + 1]>>

RECURSIVE Pow10(_)
Pow10(e) == IF e = 0 THEN 1 ELSE 10 * Pow10(e - 1)

RECURSIVE PadZeros(_, _)
PadZeros(s, width) == IF Len(s) >= width THEN s ELSE PadZeros(<<"0">> \o s, width)

\* str(x) of a number: an int prints its digits, a fractional float "i.f"
NumText(f) ==
    LET a == IF f.n < 0 THEN 0 - f.n ELSE f.n
        sign == IF f.n < 0 THEN <<"-">> ELSE <<>>
    IN  IF f.e = 0 THEN sign \o NatText(a)
        ELSE sign \o NatText(a \div Pow10(f.e)) \o <<".">>
                  \o PadZeros(NatText(a % Pow10(f.e)), f.e)

\* series.astype("string"), one value
AsString(c) ==
    IF c.t = "str" THEN c
    ELSE IF c.t = "num" THEN Txt(NumText(c.v))
    ELSE NA

\* .str.strip() then .replace({"": pd.NA}), one value
StripBlank(c) ==
    IF c.t # "str" THEN c
    ELSE IF Strip(c.s) = <<>> THEN NA ELSE Txt(Strip(c.s))

CountNull(series) == Cardinality({i \in 1..Len(series) : IsNull(series[i])})

\* a normalizer that counts the missing entries but does not fill them
_clean_text_series_NoFill(series, default) ==
    LET s == List([i \in 1..Len(series) |-> StripBlank(AsString(series[i]))])
    IN  <<s, CountNull(s)>>

\* returns <<filled series, missing count>>
_clean_text_series(series, default) ==
    LET s == List([i \in 1..Len(series) |-> StripBlank(AsString(series[i]))])
    IN  <<List([i \in 1..Len(s) |-> IF IsNull(s[i]) THEN Txt(default) ELSE s[i]]),
          CountNull(s)>>

PaidTokens ==
    { <<"p", "a", "i", "d">>, <<"y", "e", "s">>, <<"y">>,
      <<"t", "r", "u", "e">>, <<"1">> }

UnpaidTokens ==
    { <<"u", "n", "p", "a", "i", "d">>, <<"n", "o">>, <<"n">>,
      <<"f", "a", "l", "s", "e">>, <<"0">>,
      <<"p", "e", "n", "d", "i", "n", "g">> }

T_Paid == <<"P", "a", "i", "d">>

T_Unpaid == <<"U", "n", "p", "a", "i", "d">>

\* a norm that does not take pending for unpaid
PaymentNorm_PendingUnknown(v, default) ==
    IF IsNull(v) THEN Txt(default)
    ELSE LET vv == Lower(Strip(v.s)) IN
         IF vv \in PaidTokens THEN Txt(T_Paid)
         ELSE IF vv \in UnpaidTokens \ {<<"p", "e", "n", "d", "i", "n", "g">>} THEN Txt(T_Unpaid)
         ELSE Txt(default)

PaymentNorm(v, default) ==
    IF IsNull(v) THEN Txt(default)
    ELSE LET vv == Lower(Strip(v.s)) IN
         IF vv \in PaidTokens THEN Txt(T_Paid)
         ELSE IF vv \in UnpaidTokens THEN Txt(T_Unpaid)
         ELSE Txt(default)

_normalize_payment_status(series, default) ==
    List([i \in 1..Len(series) |->
            LET a == AsString(series[i])
                b == IF a.t = "str" THEN Txt(Lower(Strip(a.s))) ELSE a
                c == IF b.t = "str" /\ b.s = <<>> THEN NA ELSE b
            IN  PaymentNorm(c, default)])

(***************************************************************************)
(* Tables: [is_table, cols, rows]; a row is a sequence of cells, one per   *)
(* column.                                                                 *)
(***************************************************************************)
Table(cols, rows) == [is_table |-> TRUE, cols |-> cols, rows |-> rows]

NoTable == [is_table |-> FALSE, cols |-> <<>>, rows |-> <<>>]

ColIndex(cols, c) == CHOOSE i \in 1..Len(cols) : cols[i] = c /\ \A j \in 1..(i - 1) : cols[j] # c

InSeq(seq, x) == \E i \in 1..Len(seq) : seq[i] = x

\* df[c]
Column(df, c) == List([i \in 1..Len(df.rows) |-> df.rows[i][ColIndex(df.cols, c)]])

\* out[c] = series, for a column out already has
SetColumn(out, c, series) ==
    [out EXCEPT !.rows =
        List([i \in 1..Len(out.rows) |->
                List([out.rows[i] EXCEPT ![ColIndex(out.cols, c)] = series[i]])])]

\* df.dropna(how="all")
DropEmptyRows(rows) ==
    SelectSeq(rows, LAMBDA r : ~(\A j \in 1..Len(r) : IsNull(r[j])))

\* out.dropna(subset=[c])
DropNullIn(out, c) ==
    [out EXCEPT !.rows = SelectSeq(out.rows, LAMBDA r : ~IsNull(r[ColIndex(out.cols, c)]))]

(***************************************************************************)
(* Resolving the columns: norm_to_original, canonical_sources,             *)
(* passthrough_cols                                                        *)
(***************************************************************************)
\* normalized = [_normalize_col(c) for c in df.columns]
Normalized(cols) == List([i \in 1..Len(cols) |-> _normalize_col(cols[i])])

\* the keys of norm_to_original, in the order the dict received them
RECURSIVE NormKeys(_, _)
NormKeys(normalized, seen) ==
    IF normalized = <<>> THEN <<>>
    ELSE IF Head(normalized) \in seen THEN NormKeys(Tail(normalized), seen)
    ELSE <<Head(normalized)>>
            \o NormKeys(Tail(normalized), seen \cup {Head(normalized)})

\* the originals appended under one key, in the order of zip(df.columns, normalized)
RECURSIVE OriginalsOf(_, _, _)
OriginalsOf(cols, normalized, norm) ==
    IF cols = <<>> THEN <<>>
    ELSE (IF Head(normalized) = norm THEN <<Head(cols)>> ELSE <<>>)
            \o OriginalsOf(Tail(cols), Tail(normalized), norm)

ItemsOf(cols, normalized, keys) ==
    List([k \in 1..Len(keys) |-> <<keys[k], OriginalsOf(cols, normalized, keys[k])>>])

ZipGroups(cols, normalized) == ItemsOf(cols, normalized, NormKeys(normalized, {}))

\* norm_to_original as the sequence of its items <<norm, originals>>
norm_to_original(cols) == ZipGroups(cols, Normalized(cols))

\* the originals of every item whose norm resolves to target, extended in
\* the order of the items (target NoCanonical: the passthrough columns)
RECURSIVE ExtendFrom(_, _)
ExtendFrom(items, target) ==
    IF items = <<>> THEN <<>>
    ELSE (IF SynonymsGet(Head(items)[1]) = target THEN Head(items)[2] ELSE <<>>)
            \o ExtendFrom(Tail(items), target)

SourcesFrom(items) == Dict([c \in CanonicalSet |-> ExtendFrom(items, c)])

canonical_sources(cols) == SourcesFrom(norm_to_original(cols))

passthrough_cols(cols) == ExtendFrom(norm_to_original(cols), NoCanonical)

(***************************************************************************)
(* _coalesce_columns                                                       *)
(***************************************************************************)
\* a right-biased coalescer: the last non-null cell
RECURSIVE FirstNonNull_Rightmost(_)
FirstNonNull_Rightmost(cells) ==
    IF cells = <<>> THEN NA
    ELSE IF ~IsNull(cells[Len(cells)]) THEN cells[Len(cells)]
    ELSE FirstNonNull_Rightmost(SubSeq(cells, 1, Len(cells) - 1))

\* tmp.bfill(axis=1).iloc[:, 0] in one row: the first non-null cell from the left
RECURSIVE FirstNonNull(_)
FirstNonNull(cells) ==
    IF cells = <<>> THEN NA
    ELSE IF ~IsNull(Head(cells)) THEN Head(cells)
    ELSE FirstNonNull(Tail(cells))

_coalesce_columns(df, cols) ==
    IF Len(cols) = 1 THEN Column(df, cols[1])
    ELSE List([i \in 1..Len(df.rows) |->
                FirstNonNull(List([k \in 1..Len(cols) |->
                                      df.rows[i][ColIndex(df.cols, cols[k])]]))])

(***************************************************************************)
(* clean_sales_dataframe, stage by stage                                   *)
(***************************************************************************)
\* for c in passthrough_cols: if c not in out.columns: out[c] = df[c]
RECURSIVE AppendNew(_, _)
AppendNew(have, more) ==
    IF more = <<>> THEN have
    ELSE IF InSeq(have, Head(more)) THEN AppendNew(have, Tail(more))
    ELSE AppendNew(Append(have, Head(more)), Tail(more))

\* out[canonical] = pd.NA, or the coalesced sources
CanonicalColumn(df, sources) ==
    IF sources = <<>> THEN List([i \in 1..Len(df.rows) |-> NA])
    ELSE _coalesce_columns(df, sources)

\* the columns in the order they are assigned, put together row by row
FromColumns(cols, columns, nrows) ==
    Table(cols,
          List([i \in 1..nrows |-> List([k \in 1..Len(cols) |-> columns[k][i]])]))

\* the canonical dataframe: one coalesced column per canonical field (all
\* missing when the field has no source), then the passthrough columns
BuildFrom(df, sources, cols) ==
    FromColumns(cols,
                List([k \in 1..Len(cols) |->
                        IF k <= Len(_CANONICAL_COLS)
                        THEN CanonicalColumn(df, sources[cols[k]])
                        ELSE Column(df, cols[k])]),
                Len(df.rows))

BuildCanonical(df, sources, passthrough) ==
    BuildFrom(df, sources, AppendNew(_CANONICAL_COLS, passthrough))

\* warnings.append(f"Merged {len(sources)} columns into '{canonical}': {sources}")
RECURSIVE MergeWarnings(_, _)
MergeWarnings(sources, k) ==
    IF k > Len(_CANONICAL_COLS) THEN <<>>
    ELSE (IF Len(sources[_CANONICAL_COLS[k]]) > 1
          THEN << <<Len(sources[_CANONICAL_COLS[k]]), _CANONICAL_COLS[k],
                    sources[_CANONICAL_COLS[k]]>> >>
          ELSE <<>>)
            \o MergeWarnings(sources, k + 1)

\* a date policy that counts the invalid dates and keeps their rows
ApplyDatePolicy_CountOnly(parsed, c) ==
    <<parsed, CountNull(Column(parsed, OrderDate))>>

\* out.dropna(subset=["order_date"]) when the policy is "drop": <<out, invalid_dates>>
ApplyDatePolicy(parsed, c) ==
    <<IF CountNull(Column(parsed, OrderDate)) > 0 /\ c.invalid_date_policy = "drop"
      THEN DropNullIn(parsed, OrderDate) ELSE parsed,
      CountNull(Column(parsed, OrderDate))>>

\* Clean dates
CleanDates(out, c) ==
    ApplyDatePolicy(SetColumn(out, OrderDate, _parse_dates(Column(out, OrderDate))), c)

\* pd.to_numeric of the parsed amounts: a float, NaN being the missing cell
AmountCell(x) ==
    LET f == _parse_amount_value(x) IN IF f.nan THEN NA ELSE Num(f)

\* series.fillna(0.0)
FillZero(series) ==
    List([i \in 1..Len(series) |->
            IF IsNull(series[i]) THEN Num(Float(0, 0)) ELSE series[i]])

\* an amount policy under which zero drops the rows instead of filling them
ApplyAmountPolicy_ZeroDrops(parsed, c) ==
    LET invalid_amounts == CountNull(Column(parsed, Amount)) IN
    IF invalid_amounts > 0
    THEN IF c.invalid_amount_policy \in {"drop", "zero"}
         THEN <<FALSE, DropNullIn(parsed, Amount), invalid_amounts>>
         ELSE IF c.invalid_amount_policy = "keep_nan"
         THEN <<FALSE, parsed, invalid_amounts>>
         ELSE <<TRUE, parsed, invalid_amounts>>
    ELSE <<FALSE, parsed, invalid_amounts>>

\* the branch on cfg.invalid_amount_policy: <<raised, out, invalid_amounts>>
ApplyAmountPolicy(parsed, c) ==
    LET invalid_amounts == CountNull(Column(parsed, Amount)) IN
    IF invalid_amounts > 0
    THEN IF c.invalid_amount_policy = "drop"
         THEN <<FALSE, DropNullIn(parsed, Amount), invalid_amounts>>
         ELSE IF c.invalid_amount_policy = "zero"
         THEN <<FALSE, SetColumn(parsed, Amount, FillZero(Column(parsed, Amount))),
                invalid_amounts>>
         ELSE IF c.invalid_amount_policy = "keep_nan"
         THEN <<FALSE, parsed, invalid_amounts>>
         ELSE <<TRUE, parsed, invalid_amounts>>
    ELSE <<FALSE, parsed, invalid_amounts>>

ParsedAmounts(series) == List([i \in 1..Len(series) |-> AmountCell(series[i])])

\* Clean amounts
CleanAmounts(out, c) ==
    ApplyAmountPolicy(SetColumn(out, Amount, ParsedAmounts(Column(out, Amount))), c)

\* Fill/clean text fields: <<out, filled_customer, filled_product, filled_category>>
CleanTexts(out, c) ==
    <<SetColumn(
        SetColumn(
          SetColumn(
            SetColumn(
              SetColumn(
                SetColumn(out, CustomerName,
                    _clean_text_series(Column(out, CustomerName), c.default_customer)[1]),
                Product, _clean_text_series(Column(out, Product), c.default_product)[1]),
              Category, _clean_text_series(Column(out, Category), c.default_category)[1]),
            City, _clean_text_series(Column(out, City), c.default_city)[1]),
          Country, _clean_text_series(Column(out, Country), c.default_country)[1]),
        PaymentStatus,
        _normalize_payment_status(Column(out, PaymentStatus), c.default_payment_status)),
      _clean_text_series(Column(out, CustomerName), c.default_customer)[2],
      _clean_text_series(Column(out, Product), c.default_product)[2],
      _clean_text_series(Column(out, Category), c.default_category)[2]>>

\* out.drop_duplicates(): the first of equal rows is kept
RECURSIVE DropDuplicateRows(_, _)
DropDuplicateRows(rows, seen) ==
    IF rows = <<>> THEN <<>>
    ELSE IF Head(rows) \in seen THEN DropDuplicateRows(Tail(rows), seen)
    ELSE <<Head(rows)>> \o DropDuplicateRows(Tail(rows), seen \cup {Head(rows)})

\* a deduplication that compares each row with the row before it only
RECURSIVE DropAdjacentRows(_)
DropAdjacentRows(rows) ==
    IF Len(rows) < 2 THEN rows
    ELSE IF rows[Len(rows)] = rows[Len(rows) - 1]
         THEN DropAdjacentRows(SubSeq(rows, 1, Len(rows) - 1))
         ELSE DropAdjacentRows(SubSeq(rows, 1, Len(rows) - 1)) \o <<rows[Len(rows)]>>

drop_duplicates_Adjacent(out) == [out EXCEPT !.rows = DropAdjacentRows(out.rows)]

drop_duplicates(out) == [out EXCEPT !.rows = DropDuplicateRows(out.rows, {})]

\* a column order that keeps the columns as they were built, then moves
\* customer_name to the front
OrderColumns_CustomerFirst(out) ==
    LET rest == SelectSeq(out.cols, LAMBDA c : c # CustomerName)
        cols == <<CustomerName>> \o rest
    IN  Table(cols,
              List([i \in 1..Len(out.rows) |->
                  List([k \in 1..Len(cols) |-> out.rows[i][ColIndex(out.cols, cols[k])]])]))

\* out[_CANONICAL_COLS + extras]
OrderColumns(out) ==
    LET extras == SelectSeq(out.cols, LAMBDA c : c \notin CanonicalSet)
        cols == _CANONICAL_COLS \o extras
    IN  Table(cols,
              List([i \in 1..Len(out.rows) |->
                  List([k \in 1..Len(cols) |-> out.rows[i][ColIndex(out.cols, cols[k])]])]))

(***************************************************************************)
(* clean_sales_dataframe(df_raw, cfg): what it returns or raises, and the  *)
(* locals the properties below speak about.                                *)
(***************************************************************************)
EmptyOut == Table(<<>>, <<>>)

NoSummary ==
    [rows_before |-> 0, rows_after |-> 0, empty_rows_dropped |-> 0,
     duplicates_removed |-> 0, invalid_dates |-> 0, invalid_amounts |-> 0,
     filled_customer |-> 0, filled_product |-> 0, filled_category |-> 0,
     warnings |-> <<>>]

NoLocals ==
    [canonical_sources |-> [c \in CanonicalSet |-> <<>>],
     passthrough_cols |-> <<>>,
     df |-> EmptyOut,
     out |-> EmptyOut,
     normalized |-> EmptyOut]

\* raise CleaningError(...): no table and no summary
Raised(kind) == [status |-> "raised", error |-> kind, out |-> EmptyOut, summary |-> NoSummary]

Returned(out, summary) == [status |-> "returned", error |-> "", out |-> out, summary |-> summary]

Pending == [status |-> "pending", error |-> "", out |-> EmptyOut, summary |-> NoSummary]

Locals(df, sources, passthrough, built) ==
    [canonical_sources |-> sources,
     passthrough_cols |-> passthrough,
     df |-> df,
     out |-> built,
     normalized |-> EmptyOut]

\* the return statement
CleanDeduped(raw, loc, dated, amounts, texts, deduped) ==
    <<Returned(OrderColumns(deduped),
               [rows_before |-> Len(raw.rows),
                rows_after |-> Len(deduped.rows),
                empty_rows_dropped |-> Len(raw.rows) - Len(loc.df.rows),
                duplicates_removed |-> Len(texts[1].rows) - Len(deduped.rows),
                invalid_dates |-> dated[2],
                invalid_amounts |-> amounts[3],
                filled_customer |-> texts[2],
                filled_product |-> texts[3],
                filled_category |-> texts[4],
                warnings |-> MergeWarnings(loc.canonical_sources, 1)]),
      [loc EXCEPT !.normalized = texts[1]]>>

\* from "Fill/clean text fields" on
CleanAmounted(raw, loc, dated, amounts, texts) ==
    CleanDeduped(raw, loc, dated, amounts, texts, drop_duplicates(texts[1]))

\* from "Clean amounts" on
CleanDated(raw, loc, dated, amounts, c) ==
    IF amounts[1] THEN <<Raised("InvalidPolicyValue"), loc>>
    ELSE CleanAmounted(raw, loc, dated, amounts, CleanTexts(amounts[2], c))

\* from "Clean dates" on
CleanBuilt(raw, loc, dated, c) ==
    CleanDated(raw, loc, dated, CleanAmounts(dated[1], c), c)

\* from "Build canonical dataframe" on
CleanRequired(raw, loc, c) == CleanBuilt(raw, loc, CleanDates(loc.out, c), c)

\* a required-fields check that looks at order_date only
CleanResolved_DateOnly(raw, df, sources, passthrough, c) ==
    IF sources[OrderDate] = <<>>
    THEN <<Raised("MissingRequiredColumn"), Locals(df, sources, passthrough, EmptyOut)>>
    ELSE CleanRequired(raw,
                       Locals(df, sources, passthrough,
                              BuildCanonical(df, sources, passthrough)),
                       c)

\* from "Required fields" on
CleanResolved(raw, df, sources, passthrough, c) ==
    IF sources[OrderDate] = <<>> \/ sources[Amount] = <<>>
    THEN <<Raised("MissingRequiredColumn"), Locals(df, sources, passthrough, EmptyOut)>>
    ELSE CleanRequired(raw,
                       Locals(df, sources, passthrough,
                              BuildCanonical(df, sources, passthrough)),
                       c)

\* from "Normalize and map columns to canonical" on
CleanNonEmpty(raw, df, c) ==
    CleanResolved(raw, df, canonical_sources(df.cols), passthrough_cols(df.cols), c)

clean_sales_dataframe(raw, c) ==
    IF ~raw.is_table THEN <<Raised("NotATable"), NoLocals>>
    ELSE IF Len(raw.rows) = 0 THEN <<Raised("EmptyInput"), NoLocals>>
    ELSE CleanNonEmpty(raw, Table(raw.cols, DropEmptyRows(raw.rows)), c)

(***************************************************************************)
(* CleaningConfig                                                          *)
(***************************************************************************)
T_Anonymous == <<"A", "n", "o", "n", "y", "m", "o", "u", "s">>

T_Unknown == <<"U", "n", "k", "n", "o", "w", "n">>

CleaningConfig(date_policy, amount_policy) ==
    [invalid_date_policy |-> date_policy,
     invalid_amount_policy |-> amount_policy,
     default_customer |-> T_Anonymous,
     default_product |-> T_Unknown,
     default_category |-> T_Unknown,
     default_payment_status |-> T_Unknown,
     default_city |-> T_Unknown,
     default_country |-> T_Unknown]

\* CleaningConfig(): the defaults of the dataclass
DefaultConfig == CleaningConfig("drop", "keep_nan")

\* the recognized options, and one value outside them on each axis
DatePolicies == {"drop", "keep"}

AmountPolicies == {"drop", "zero", "keep_nan"}

Configs ==
    {CleaningConfig(d, a) : d \in DatePolicies \cup {"bogus"},
                            a \in AmountPolicies \cup {"bogus"}}

(***************************************************************************)
(* The calls the model makes: raw labels and cell texts.                   *)
(***************************************************************************)
L_OrderDate == <<"O", "r", "d", "e", "r", " ", "D", "a", "t", "e">>

L_Customer == <<"C", "u", "s", "t", "o", "m", "e", "r">>

L_Total == <<"T", "o", "t", "a", "l">>

L_Amount == <<"A", "m", "o", "u", "n", "t">>

L_TotalSp == <<"t", "o", "t", "a", "l", " ">>

L_Note == <<"N", "o", "t", "e">>

L_Ref == <<"R", "e", "f">>

L_NoteSp == <<"n", "o", "t", "e", " ">>

X_Jan2 == Txt(<<"0", "1", "/", "0", "2", "/", "2", "0", "2", "6">>)

X_Jan15 == Txt(<<"1", "5", "/", "0", "1", "/", "2", "0", "2", "6">>)

X_NotADate == Txt(<<"n", "o", "t", "-", "a", "-", "d", "a", "t", "e">>)

X_Bob == Txt(<<"B", "o", "b">>)

X_BobPadded == Txt(<<" ", "B", "o", "b", " ">>)

X_Ann == Txt(<<"A", "n", "n">>)

X_Dollar10 == Txt(<<"$", "1", "0", ".", "0", "0">>)

X_Ten == Txt(<<"1", "0">>)

X_Free == Txt(<<"f", "r", "e", "e">>)

X_A == Txt(<<"a">>)

X_B == Txt(<<"b">>)

X_Five == Txt(<<"5">>)

X_Seven == Txt(<<"7">>)

X_NA == Txt(Ex_NA)

X_Paren250 == Txt(Ex_Paren250)

SeqsUpTo(S, n) == UNION {[1..k -> S] : k \in 0..n}

(***************************************************************************)
(* Tables over the header Order Date, Customer, Total, Note whose rows are *)
(* drawn from: a clean row, the same row in another formatting, the same   *)
(* row with another note, rows with a bad date, a bad amount or both, an   *)
(* entirely empty row and an unrelated row.                                *)
(***************************************************************************)
RowHeader == <<L_OrderDate, L_Customer, L_Total, L_Note>>

RowPool ==
    { <<X_Jan2, X_Bob, X_Dollar10, X_A>>,
      <<X_Jan2, X_BobPadded, X_Ten, X_A>>,
      <<X_Jan2, X_Bob, X_Dollar10, X_B>>,
      <<X_NotADate, X_Bob, X_Dollar10, X_A>>,
      <<X_Jan2, X_Bob, X_NA, X_A>>,
      <<X_NotADate, NA, X_Free, NA>>,
      <<NA, NA, NA, NA>>,
      <<X_Jan15, X_Ann, X_Paren250, NA>> }

RowTables == {Table(RowHeader, rows) : rows \in SeqsUpTo(RowPool, MaxRows)}

\* the end-to-end scenario: two identical rows under Order Date, Customer, Total
ScenarioTable ==
    Table(<<L_OrderDate, L_Customer, L_Total>>,
          << <<X_Jan2, X_Bob, X_Dollar10>>, <<X_Jan2, X_Bob, X_Dollar10>> >>)

(***************************************************************************)
(* Tables with one, two or three columns resolving to amount, every cell   *)
(* of which is missing or one of two texts (the empty text included).      *)
(***************************************************************************)
CoalesceHeaders ==
    { <<L_OrderDate, L_Total>>,
      <<L_OrderDate, L_Total, L_Amount>>,
      <<L_Amount, L_OrderDate, L_Total>>,
      <<L_OrderDate, L_Total, L_Amount, L_TotalSp>> }

CoalesceCells == {NA, X_Five, X_Seven, Txt(<<>>)}

CoalesceTables ==
    UNION {{Table(h, << <<X_Jan2>> \o cells >>) : cells \in [1..(Len(h) - 1) -> CoalesceCells]}
           : h \in {h \in CoalesceHeaders : h[1] = L_OrderDate}}
    \cup {Table(h, << <<cells[1], X_Jan2, cells[2]>> >>) : cells \in [1..2 -> CoalesceCells],
                                                          h \in {<<L_Amount, L_OrderDate, L_Total>>}}

Init ==
    /\ \/ df_raw \in RowTables /\ cfg \in Configs
       \/ df_raw \in CoalesceTables \cup {ScenarioTable, NoTable} /\ cfg = DefaultConfig
    /\ clean_ret = Pending
    /\ clean_loc = NoLocals
    /\ amt_x = NA
    /\ amt_ret = NoneF
    /\ amt_done = FALSE
    /\ CallIdle

Clean ==
    /\ clean_ret.status = "pending"
    /\ LET r == clean_sales_dataframe(df_raw, cfg) IN
        /\ clean_ret' = r[1]
        /\ clean_loc' = r[2]
    /\ UNCHANGED <<df_raw, cfg, amountVars, callVars>>

Next == Clean

Spec == Init /\ [][Next]_vars

(***************************************************************************)
(* Tables with one row under every arrangement of up to MaxCols distinct   *)
(* labels: one resolving to order_date, three resolving to amount (two of  *)
(* them with the same normalized label), one resolving to customer_name    *)
(* and three passthrough labels (two of them with the same normalized      *)
(* label).  Labels are distinct, as a table reader delivers them.          *)
(***************************************************************************)
LabelPool ==
    {L_OrderDate, L_Total, L_Amount, L_TotalSp, L_Customer, L_Note, L_Ref, L_NoteSp}

Headers ==
    UNION {{h \in [1..k -> LabelPool] : \A i, j \in 1..k : i # j => h[i] # h[j]}
           : k \in 0..MaxCols}

SampleCell(label) ==
    CASE label = L_OrderDate -> X_Jan2
      [] label = L_Total -> X_Dollar10
      [] label = L_Amount -> X_Five
      [] label = L_TotalSp -> X_Seven
      [] label = L_Customer -> X_Bob
      [] label = L_Note -> X_A
      [] label = L_Ref -> X_B
      [] label = L_NoteSp -> X_Ann

HeaderTables ==
    {Table(h, << List([k \in 1..Len(h) |-> SampleCell(h[k])]) >>) : h \in Headers}

InitHeaders ==
    /\ df_raw \in HeaderTables
    /\ cfg = DefaultConfig
    /\ clean_ret = Pending
    /\ clean_loc = NoLocals
    /\ amt_x = NA
    /\ amt_ret = NoneF
    /\ amt_done = FALSE
    /\ CallIdle

SpecHeaders == InitHeaders /\ [][Next]_vars

(***************************************************************************)
(* Calls of _parse_amount_value.                                           *)
(***************************************************************************)
InitAmount ==
    /\ df_raw = NoTable
    /\ cfg = DefaultConfig
    /\ clean_ret = Pending
    /\ clean_loc = NoLocals
    /\ amt_x \in AmountInputs
    /\ amt_ret = NoneF
    /\ amt_done = FALSE
    /\ CallIdle

ParseAmount ==
    /\ ~amt_done
    /\ amt_ret' = _parse_amount_value(amt_x)
    /\ amt_done' = TRUE
    /\ UNCHANGED <<amt_x, cleanVars, callVars>>

NextAmount == ParseAmount

SpecAmount == InitAmount /\ [][NextAmount]_vars

(***************************************************************************)
(* C10: _parse_amount_value maps "$1,234.56" to 1234.56, "1.234,56 TL" to  *)
(* 1234.56, "(250)" to -250.0 and each of "N/A", the em dash and "free" to *)
(* null; every text whose trimmed lower-case form is a bad token yields    *)
(* null; and a text without a minus sign that is wrapped in parentheses    *)
(* yields the negation of the value of the same text with its parentheses  *)
(* removed.                                                                *)
(***************************************************************************)
WrappedInParens(s) ==
    LET t == Strip(s) IN Len(t) >= 2 /\ t[1] = "(" /\ t[Len(t)] = ")"

Unparenthesized(s) == Remove(Remove(s, "("), ")")

C10_AmountParser ==
    amt_done =>
        /\ amt_x = Txt(Ex_Dollar) => amt_ret = Float(123456, 2)
        /\ amt_x = Txt(Ex_Lira) => amt_ret = Float(123456, 2)
        /\ amt_x = Txt(Ex_Paren250) => amt_ret = Float(-250, 0)
        /\ amt_x \in {Txt(Ex_NA), Txt(Ex_Dash), Txt(Ex_Free)} => amt_ret = NoneF
        /\ (amt_x.t = "str" /\ Strip(Lower(Strip(amt_x.s))) \in _BAD_AMOUNT_TOKENS)
              => amt_ret = NoneF
        /\ (amt_x.t = "str" /\ WrappedInParens(amt_x.s) /\ ~Contains(amt_x.s, "-"))
              => amt_ret = NegF(_parse_amount_value(Txt(Unparenthesized(amt_x.s))))

C10_Witness ==
    /\ amt_done
    /\ amt_x = Txt(Ex_Paren250)
    /\ amt_ret = Float(-250, 0)

(***************************************************************************)
(* Properties of clean_sales_dataframe.                                    *)
(***************************************************************************)
Done == clean_ret.status # "pending"

ReturnedOk == clean_ret.status = "returned"

InputLabels == {df_raw.cols[i] : i \in 1..Len(df_raw.cols)}

ResolvesTo(label, field) == SynonymsGet(_normalize_col(label)) = field

SomeLabelResolvesTo(field) == \E label \in InputLabels : ResolvesTo(label, field)

EightFields ==
    <<OrderDate, CustomerName, Product, Category, Amount, PaymentStatus, City, Country>>

OptionalFields == {CustomerName, Product, Category, PaymentStatus, City, Country}

(***************************************************************************)
(* C1: whenever clean returns, the first eight columns of the returned     *)
(* table are order_date, customer_name, product, category, amount,         *)
(* payment_status, city, country in that order, none of them occurs again, *)
(* and every further column is a column of the input whose normalized      *)
(* label is not a synonym.                                                 *)
(***************************************************************************)
C1_CanonicalColumns ==
    ReturnedOk =>
        LET cols == clean_ret.out.cols IN
        /\ Len(cols) >= 8
        /\ SubSeq(cols, 1, 8) = EightFields
        /\ \A k \in 9..Len(cols) :
              /\ cols[k] \in InputLabels
              /\ ResolvesTo(cols[k], NoCanonical)
              /\ \A j \in 1..8 : cols[k] # EightFields[j]
        /\ \A i \in 1..Len(clean_ret.out.rows) : Len(clean_ret.out.rows[i]) = Len(cols)

C1_Witness ==
    /\ ReturnedOk
    /\ Len(clean_ret.out.cols) = 10
    /\ ~SomeLabelResolvesTo(CustomerName)
    /\ Len(clean_ret.out.rows) = 1

(***************************************************************************)
(* C2: on a table with rows and a recognized policy, clean fails with the  *)
(* missing-required-column error exactly when no input label resolves to   *)
(* order_date or none resolves to amount; it fails for no other absent     *)
(* field, and a field no label resolves to is missing in every row of the  *)
(* canonical table as first built (before defaults are filled).            *)
(***************************************************************************)
RecognizedPolicy ==
    /\ cfg.invalid_date_policy \in DatePolicies
    /\ cfg.invalid_amount_policy \in AmountPolicies

C2_RequiredColumns ==
    (Done /\ df_raw.is_table /\ Len(df_raw.rows) > 0 /\ RecognizedPolicy) =>
        /\ (clean_ret.status = "raised" /\ clean_ret.error = "MissingRequiredColumn")
              <=> (~SomeLabelResolvesTo(OrderDate) \/ ~SomeLabelResolvesTo(Amount))
        /\ clean_ret.status = "raised" => clean_ret.error = "MissingRequiredColumn"
        /\ ReturnedOk =>
              \A f \in OptionalFields :
                  ~SomeLabelResolvesTo(f) =>
                      /\ InSeq(clean_loc.out.cols, f)
                      /\ \A i \in 1..Len(clean_loc.out.rows) :
                            IsNull(clean_loc.out.rows[i][ColIndex(clean_loc.out.cols, f)])

C2_Witness ==
    /\ ReturnedOk
    /\ ~SomeLabelResolvesTo(CustomerName)
    /\ SomeLabelResolvesTo(NoCanonical)
    /\ Len(clean_loc.out.rows) = 1
    /\ IsNull(clean_loc.out.rows[1][2])

(***************************************************************************)
(* C3: every call whose invalid_date_policy is outside {drop, keep} or     *)
(* whose invalid_amount_policy is outside {drop, zero, keep_nan} fails,    *)
(* whatever the data is.                                                   *)
(***************************************************************************)
C3_InvalidPolicyRejected ==
    (Done /\ ~RecognizedPolicy) => clean_ret.status = "raised"

(***************************************************************************)
(* C4: rows whose amount does not parse.                                   *)
(***************************************************************************)
RawRows == 1..Len(df_raw.rows)

EmptyRow(i) == \A j \in 1..Len(df_raw.rows[i]) : IsNull(df_raw.rows[i][j])

\* the table holding only row i of the input
OneRow(i) == Table(df_raw.cols, <<df_raw.rows[i]>>)

\* the amount and the date of row i, coalesced and parsed
AmountOf(i) ==
    _parse_amount_value(_coalesce_columns(OneRow(i), clean_loc.canonical_sources[Amount])[1])

\* the place of row i among the rows that are not entirely empty
PlaceOf(i) == Cardinality({j \in 1..i : ~EmptyRow(j)})

\* the date of row i as parsed in the date column of the whole table
DateOf(i) ==
    IF EmptyRow(i) THEN NaT
    ELSE _parse_dates(Column(clean_loc.out, OrderDate))[PlaceOf(i)]

UnparseableAmount(i) == ~EmptyRow(i) /\ AmountOf(i).nan

\* the row clean returns for row i alone when no date is dropped, with the
\* date the row has in the whole table
ImageOf(i) ==
    [clean_sales_dataframe(OneRow(i),
                           [cfg EXCEPT !.invalid_date_policy = "keep"])[1].out.rows[1]
        EXCEPT ![1] = DateOf(i)]

AmountAt(row) == row[5]

ReturnedWith(i, amount) ==
    \E k \in 1..Len(clean_ret.out.rows) :
        /\ clean_ret.out.rows[k] = ImageOf(i)
        /\ AmountAt(clean_ret.out.rows[k]) = amount

HasUnparseableAmount ==
    /\ Done
    /\ clean_ret.error \notin {"NotATable", "EmptyInput", "MissingRequiredColumn"}
    /\ cfg.invalid_amount_policy \in AmountPolicies
    /\ \E i \in RawRows : UnparseableAmount(i)

\* C4 as stated: under drop no returned row has a null amount, under zero
\* every row whose amount does not parse is returned with amount 0.0, under
\* keep_nan it is returned with a null amount, and the call does not fail.
C4_AsStated ==
    HasUnparseableAmount =>
        /\ ReturnedOk
        /\ cfg.invalid_amount_policy = "drop" =>
              \A k \in 1..Len(clean_ret.out.rows) : ~IsNull(AmountAt(clean_ret.out.rows[k]))
        /\ cfg.invalid_amount_policy = "zero" =>
              \A i \in RawRows : UnparseableAmount(i) => ReturnedWith(i, Num(Float(0, 0)))
        /\ cfg.invalid_amount_policy = "keep_nan" =>
              \A i \in RawRows : UnparseableAmount(i) => ReturnedWith(i, NA)

SurvivesDates(i) == cfg.invalid_date_policy # "drop" \/ ~IsNull(DateOf(i))

\* C4 as amended: the same, for the rows whose amount does not parse that
\* the invalid-date policy does not drop (their date parses, or the policy
\* is not drop).
C4_AmountPolicies ==
    HasUnparseableAmount =>
        /\ ReturnedOk
        /\ cfg.invalid_amount_policy = "drop" =>
              \A k \in 1..Len(clean_ret.out.rows) : ~IsNull(AmountAt(clean_ret.out.rows[k]))
        /\ cfg.invalid_amount_policy = "zero" =>
              \A i \in RawRows :
                  (UnparseableAmount(i) /\ SurvivesDates(i)) => ReturnedWith(i, Num(Float(0, 0)))
        /\ cfg.invalid_amount_policy = "keep_nan" =>
              \A i \in RawRows :
                  (UnparseableAmount(i) /\ SurvivesDates(i)) => ReturnedWith(i, NA)

C4_Witness ==
    /\ HasUnparseableAmount
    /\ cfg.invalid_amount_policy = "zero"
    /\ cfg.invalid_date_policy = "drop"
    /\ \E i \in RawRows : UnparseableAmount(i) /\ SurvivesDates(i)
    /\ \E i \in RawRows : UnparseableAmount(i) /\ ~SurvivesDates(i)
    /\ \E k \in 1..Len(clean_ret.out.rows) :
          AmountAt(clean_ret.out.rows[k]) = Num(Float(0, 0))

(***************************************************************************)
(* C5: with K the number of rows of the normalized table (dates and        *)
(* amounts parsed, policies applied, texts filled, payment status mapped)  *)
(* that equal an earlier row, duplicates_removed = K, no two returned rows *)
(* are equal, and when no drop policy removed a row                        *)
(* rows_after = rows_before - empty_rows_dropped - K.                      *)
(***************************************************************************)
CopiesOfEarlier(rows) ==
    {i \in 1..Len(rows) : \E j \in 1..(i - 1) : rows[j] = rows[i]}

K == Cardinality(CopiesOfEarlier(clean_loc.normalized.rows))

NoRowDroppedByPolicy ==
    /\ ~(clean_ret.summary.invalid_dates > 0 /\ cfg.invalid_date_policy = "drop")
    /\ ~(clean_ret.summary.invalid_amounts > 0 /\ cfg.invalid_amount_policy = "drop")

C5_DuplicatesRemoved ==
    ReturnedOk =>
        /\ clean_ret.summary.duplicates_removed = K
        /\ \A i \in 1..Len(clean_ret.out.rows) :
              \A j \in 1..Len(clean_ret.out.rows) :
                  i # j => clean_ret.out.rows[i] # clean_ret.out.rows[j]
        /\ Len(clean_ret.out.rows) = Len(clean_loc.normalized.rows) - K
        /\ NoRowDroppedByPolicy =>
              clean_ret.summary.rows_after =
                  clean_ret.summary.rows_before - clean_ret.summary.empty_rows_dropped - K

\* three rows, the third a copy of the first in another format, the second
\* different from both
C5_Witness ==
    /\ ReturnedOk
    /\ NoRowDroppedByPolicy
    /\ Len(df_raw.rows) = 3
    /\ Len(clean_loc.normalized.rows) = 3
    /\ df_raw.rows[1] # df_raw.rows[3]
    /\ clean_loc.normalized.rows[1] = clean_loc.normalized.rows[3]
    /\ clean_loc.normalized.rows[1] # clean_loc.normalized.rows[2]
    /\ clean_ret.summary.duplicates_removed = 1
    /\ clean_ret.summary.rows_after = 2

(***************************************************************************)
(* C6: the end-to-end scenario.                                            *)
(***************************************************************************)
ScenarioRun == Done /\ df_raw = ScenarioTable /\ cfg = DefaultConfig

ScenarioOutput ==
    /\ ReturnedOk
    /\ Len(clean_ret.out.rows) = 1
    /\ clean_ret.out.rows[1][ColIndex(clean_ret.out.cols, Amount)] = Num(Float(10, 0))
    /\ clean_ret.out.rows[1][ColIndex(clean_ret.out.cols, CustomerName)] = X_Bob
    /\ clean_ret.out.rows[1][ColIndex(clean_ret.out.cols, Category)] = Txt(T_Unknown)
    /\ clean_ret.summary.duplicates_removed = 1

\* C6 as stated: the scenario returns one row with amount 10.0, customer_name
\* "Bob", category "Unknown", duplicates_removed = 1 and filled_category = 1.
C6_AsStated ==
    ScenarioRun => (ScenarioOutput /\ clean_ret.summary.filled_category = 1)

\* C6 as amended: the scenario returns one row with amount 10.0, customer_name
\* "Bob", category "Unknown", duplicates_removed = 1 and filled_category = 2,
\* the category being counted in both input rows before the copy is removed.
C6_Scenario ==
    ScenarioRun => (ScenarioOutput /\ clean_ret.summary.filled_category = 2)

C6_Witness ==
    /\ ScenarioRun
    /\ clean_ret.summary.rows_before = 2
    /\ clean_ret.summary.rows_after = 1
    /\ clean_ret.out.rows[1][ColIndex(clean_ret.out.cols, Category)] = Txt(T_Unknown)

(***************************************************************************)
(* C7: for every canonical field with at least one source column and every *)
(* row, the coalesced cell is the cell of the first source in list order   *)
(* that is not null; a non-null first source wins whatever the others      *)
(* hold, and the coalesced cell is null exactly when every source is null. *)
(***************************************************************************)
SourceCells(f, i) ==
    [k \in 1..Len(clean_loc.canonical_sources[f]) |->
        clean_loc.df.rows[i][ColIndex(clean_loc.df.cols, clean_loc.canonical_sources[f][k])]]

Coalesced(f, i) == clean_loc.out.rows[i][ColIndex(clean_loc.out.cols, f)]

C7_LeftBiased ==
    ReturnedOk =>
        \A f \in CanonicalSet :
            clean_loc.canonical_sources[f] # <<>> =>
                \A i \in 1..Len(clean_loc.df.rows) :
                    LET cells == SourceCells(f, i) IN
                    /\ ~IsNull(cells[1]) => Coalesced(f, i) = cells[1]
                    /\ \A k \in DOMAIN cells :
                          (~IsNull(cells[k]) /\ \A j \in 1..(k - 1) : IsNull(cells[j]))
                              => Coalesced(f, i) = cells[k]
                    /\ IsNull(Coalesced(f, i)) <=> \A k \in DOMAIN cells : IsNull(cells[k])

C7_Witness ==
    /\ ReturnedOk
    /\ Len(clean_loc.canonical_sources[Amount]) = 3
    /\ Len(clean_loc.df.rows) = 1
    /\ IsNull(SourceCells(Amount, 1)[1])
    /\ SourceCells(Amount, 1)[2] = X_Five
    /\ SourceCells(Amount, 1)[3] = X_Seven
    /\ Coalesced(Amount, 1) = X_Five

(***************************************************************************)
(* C8: for every canonical field the source columns handed to the          *)
(* coalescer are in the left-to-right order of the input's columns.        *)
(***************************************************************************)
InInputOrder(labels) ==
    \A a \in 1..Len(labels) :
        \A b \in 1..Len(labels) :
            a < b => ColIndex(df_raw.cols, labels[a]) < ColIndex(df_raw.cols, labels[b])

C8_SourcesInInputOrder ==
    ReturnedOk => \A f \in CanonicalSet : InInputOrder(clean_loc.canonical_sources[f])

(***************************************************************************)
(* C9: the columns after the eight canonical ones are in the left-to-right *)
(* order of the input's columns.                                           *)
(***************************************************************************)
C9_PassthroughInInputOrder ==
    ReturnedOk => InInputOrder(SubSeq(clean_ret.out.cols, 9, Len(clean_ret.out.cols)))

(***************************************************************************)
(* Calls of the other operations: the clean pipeline and the amount parser *)
(* are idle.                                                               *)
(***************************************************************************)
OthersIdle ==
    /\ df_raw = NoTable
    /\ cfg = DefaultConfig
    /\ clean_ret = Pending
    /\ clean_loc = NoLocals
    /\ amt_x = NA
    /\ amt_ret = NoneF
    /\ amt_done = FALSE

Called(name) == done /\ op = name

(***************************************************************************)
(* Calls of _parse_dates on series of up to MaxDates values: texts in the  *)
(* three orders (year first, day first, month first), a text that reads    *)
(* either way, two texts that are no date, and the missing value.          *)
(***************************************************************************)
MaxDates == 3

D_Iso == Txt(<<"2", "0", "2", "6", "-", "0", "1", "-", "0", "2">>)

D_DayFirst == Txt(<<"1", "5", "/", "0", "1", "/", "2", "0", "2", "6">>)

D_MonthFirst == Txt(<<"0", "1", "/", "1", "5", "/", "2", "0", "2", "6">>)

D_Ambiguous == Txt(<<"0", "1", "/", "0", "2", "/", "2", "0", "2", "6">>)

D_Impossible == Txt(<<"3", "2", "/", "1", "3", "/", "2", "0", "2", "6">>)

D_NotADate == Txt(<<"n", "o", "t", "-", "a", "-", "d", "a", "t", "e">>)

DatePool == {D_Iso, D_DayFirst, D_MonthFirst, D_Ambiguous, D_Impossible, D_NotADate, NA}

DateSeries == SeqsUpTo(DatePool, MaxDates)

InitDates ==
    /\ OthersIdle
    /\ op = "_parse_dates"
    /\ arg \in DateSeries
    /\ arg_after = arg
    /\ ret = <<>>
    /\ done = FALSE

ParseDates ==
    /\ op = "_parse_dates"
    /\ ~done
    /\ ret' = _parse_dates(arg)
    /\ done' = TRUE
    /\ UNCHANGED <<op, arg, arg_after, cleanVars, amountVars>>

NextDates == ParseDates

SpecDates == InitDates /\ [][NextDates]_vars

(***************************************************************************)
(* C11: _parse_dates returns, for each value, the month-first parse of the *)
(* value when that succeeds, otherwise its day-first parse when that       *)
(* succeeds, otherwise null; so "15/01/2026" and "01/15/2026" yield valid  *)
(* dates and "32/13/2026" and "not-a-date" yield null, wherever they stand *)
(* in the series.                                                          *)
(***************************************************************************)
MonthFirstParse(c) == ToDatetimeValue(c, FALSE)

DayFirstParse(c) == ToDatetimeValue(c, TRUE)

C11_TwoPassPerValue ==
    Called("_parse_dates") =>
        /\ Len(ret) = Len(arg)
        /\ \A i \in 1..Len(arg) :
              /\ ret[i] = IF ~IsNull(MonthFirstParse(arg[i])) THEN MonthFirstParse(arg[i])
                          ELSE DayFirstParse(arg[i])
              /\ arg[i] \in {D_DayFirst, D_MonthFirst} => ret[i] = DateCell(2026, 1, 15)
              /\ arg[i] \in {D_Impossible, D_NotADate} => IsNull(ret[i])

(***************************************************************************)
(* generic_analyzer.py.  A table is as above; a column's dtype is read off *)
(* its cells, the way a table reader types it: datetime when the cells are *)
(* dates, numeric when they are numbers (or all missing), object else.     *)
(***************************************************************************)
NoColumn == <<>>

Some(c) == <<c>>

\* df is None or df.empty
IsEmptyFrame(df) == ~df.is_table \/ Len(df.rows) = 0 \/ Len(df.cols) = 0

IsDatetimeDtype(series) ==
    /\ \A i \in 1..Len(series) : series[i].t \in {"date", "na"}
    /\ \E i \in 1..Len(series) : series[i].t = "date"

IsNumericDtype(series) ==
    \A i \in 1..Len(series) : series[i].t \in {"num", "na"}

\* sub in s
HasSub(s, sub) ==
    \E i \in 0..(Len(s) - Len(sub)) : SubSeq(s, i + 1, i + Len(sub)) = sub

CountNotNull(series) == Cardinality({i \in 1..Len(series) : ~IsNull(series[i])})

\* series.notna().mean() as the fraction num/den
NotNaMean(series) == [num |-> CountNotNull(series), den |-> Len(series)]

\* a > b and a >= b on fractions with positive denominators
FracGreater(a, b) == a.num * b.den > b.num * a.den

FracAtLeast(a, b) == a.num * b.den >= b.num * a.den

(***************************************************************************)
(* infer_date_column                                                       *)
(***************************************************************************)
DateKeys == { <<"d", "a", "t", "e">>, <<"t", "i", "m", "e">>, <<"d", "a", "y">> }

DateNamed(c) == \E k \in DateKeys : HasSub(c, k)

Candidates(cols) ==
    SelectSeq(cols, DateNamed) \o SelectSeq(cols, LAMBDA c : ~DateNamed(c))

ScanLimit == 15

MinDateSuccessPct == 20

ZeroSuccess == [num |-> 0, den |-> 1]

\* a decision that asks for more than the threshold
AcceptBest_Strict(best_col, best_success) ==
    IF FracGreater(best_success, [num |-> MinDateSuccessPct, den |-> 100])
    THEN best_col ELSE NoColumn

\* the decision after the scan
AcceptBest(best_col, best_success) ==
    IF FracAtLeast(best_success, [num |-> MinDateSuccessPct, den |-> 100])
    THEN best_col ELSE NoColumn

\* the loop over candidates[:15], from candidate k on
RECURSIVE ScanCandidates(_, _, _, _, _)
ScanCandidates(df, candidates, k, best_col, best_success) ==
    IF k > Len(candidates) \/ k > ScanLimit THEN AcceptBest(best_col, best_success)
    ELSE LET c == candidates[k]
             series == Column(df, c)
         IN  IF IsDatetimeDtype(series) THEN Some(c)
             ELSE LET success == NotNaMean(ToDatetimeMixed(series)) IN
                  IF FracGreater(success, best_success)
                  THEN ScanCandidates(df, candidates, k + 1, Some(c), success)
                  ELSE ScanCandidates(df, candidates, k + 1, best_col, best_success)

infer_date_column(df) ==
    IF IsEmptyFrame(df) THEN NoColumn
    ELSE ScanCandidates(df, Candidates(df.cols), 1, NoColumn, ZeroSuccess)

(***************************************************************************)
(* Calls of infer_date_column: one-column tables of up to MaxScanRows rows *)
(* of which any number are date texts (the others missing or no date),     *)
(* two-column tables of up to MaxPairRows rows, with and without a column  *)
(* named like a date, a table with a datetime column, a table with one     *)
(* column more than the scan reads, and the empty tables.                  *)
(***************************************************************************)
MaxScanRows == 20

MaxPairRows == 5

N_When == <<"w", "h", "e", "n">>

N_A == <<"a">>

N_B == <<"b">>

N_BDate == <<"b", "_", "d", "a", "t", "e">>

N_Stamp == <<"s", "t", "a", "m", "p">>

X_Word == Txt(<<"x">>)

\* n cells of which the first k are date texts
DateColumn(n, k, filler) == List([i \in 1..n |-> IF i <= k THEN D_Iso ELSE filler])

OneColumnTable(n, k, filler) ==
    Table(<<N_When>>, List([i \in 1..n |-> <<DateColumn(n, k, filler)[i]>>]))

TwoColumnTable(header, n, k1, k2) ==
    Table(header,
          List([i \in 1..n |-> <<DateColumn(n, k1, X_Word)[i], DateColumn(n, k2, NA)[i]>>]))

\* the first column takes part of its dates, the second is typed datetime
StampTable(k) ==
    Table(<<N_A, N_Stamp>>,
          List([i \in 1..2 |-> <<DateColumn(2, k, X_Word)[i], DateCell(2026, 1, i)>>]))

\* sixteen columns c1 .. c16, dates in the last one only
WideNames == List([j \in 1..(ScanLimit + 1) |-> <<"c">> \o NatText(j)])

WideTable(filled) ==
    Table(WideNames,
          << List([j \in 1..(ScanLimit + 1) |-> IF j \in filled THEN D_Iso ELSE X_Word]) >>)

InferDateTables ==
    {OneColumnTable(n, k, f) : n \in 1..MaxScanRows, k \in 0..MaxScanRows, f \in {X_Word, NA}}
    \cup {TwoColumnTable(h, n, k1, k2) :
            h \in {<<N_A, N_B>>, <<N_A, N_BDate>>},
            n \in 1..MaxPairRows, k1 \in 0..MaxPairRows, k2 \in 0..MaxPairRows}
    \cup {StampTable(k) : k \in 0..2}
    \cup {WideTable({}), WideTable({ScanLimit + 1}), WideTable({ScanLimit, ScanLimit + 1})}
    \cup {NoTable, Table(<<>>, <<>>), Table(<<N_A>>, <<>>)}

InitInferDate ==
    /\ OthersIdle
    /\ op = "infer_date_column"
    /\ arg \in InferDateTables
    /\ arg_after = arg
    /\ ret = <<>>
    /\ done = FALSE

\* infer_date_column only reads df
InferDate ==
    /\ op = "infer_date_column"
    /\ ~done
    /\ ret' = infer_date_column(arg)
    /\ arg_after' = arg_after
    /\ done' = TRUE
    /\ UNCHANGED <<op, arg, cleanVars, amountVars>>

NextInferDate == InferDate

SpecInferDate == InitInferDate /\ [][NextInferDate]_vars

(***************************************************************************)
(* C12: with no column typed datetime, infer_date_column returns a scanned *)
(* candidate whose fraction of values that parse as dates is the highest   *)
(* when that fraction is at least 20 percent, and no column otherwise; a   *)
(* lone column at 1 of 4 or 1 of 5 is returned, at 3 of 20 it is not.      *)
(***************************************************************************)
ParsesAsDate(c) == ~IsNull(ToDatetimeValue(c, FALSE))

\* the number of values of column c that parse, and the number of rows
Parsing(c) == Cardinality({i \in 1..Len(arg.rows) : ParsesAsDate(Column(arg, c)[i])})

Scanned ==
    {Candidates(arg.cols)[k] : k \in {j \in 1..Len(Candidates(arg.cols)) : j <= 15}}

Highest(c) == c \in Scanned /\ \A d \in Scanned : Parsing(c) >= Parsing(d)

InferDateCalled ==
    /\ Called("infer_date_column")
    /\ ~IsEmptyFrame(arg)
    /\ \A c \in Scanned : ~IsDatetimeDtype(Column(arg, c))

C12_DateThreshold ==
    InferDateCalled =>
        /\ (\E c \in Scanned : 5 * Parsing(c) >= Len(arg.rows))
              => \E c \in Scanned : ret = Some(c) /\ Highest(c)
        /\ (\A c \in Scanned : 5 * Parsing(c) < Len(arg.rows)) => ret = NoColumn
        /\ arg = OneColumnTable(4, 1, X_Word) => ret = Some(N_When)
        /\ arg = OneColumnTable(5, 1, X_Word) => ret = Some(N_When)
        /\ arg = OneColumnTable(20, 3, X_Word) => ret = NoColumn

C12_Witness ==
    /\ InferDateCalled
    /\ arg = OneColumnTable(5, 1, X_Word)
    /\ ret = Some(N_When)

(***************************************************************************)
(* infer_numeric_columns.  It returns the list numeric_cols and leaves the *)
(* caller's df with every accepted column replaced by its coerced values.  *)
(***************************************************************************)
Euro == "EURO"

Lira == "LIRA"

\* .str.replace(sub, rep, case=..., regex=False): non-overlapping occurrences,
\* scanned left to right
RECURSIVE ReplaceSub(_, _, _, _)
ReplaceSub(s, sub, rep, ignore_case) ==
    IF Len(s) < Len(sub) THEN s
    ELSE LET head == SubSeq(s, 1, Len(sub)) IN
         IF (IF ignore_case THEN Lower(head) = Lower(sub) ELSE head = sub)
         THEN rep \o ReplaceSub(SubSeq(s, Len(sub) + 1, Len(s)), sub, rep, ignore_case)
         ELSE <<Head(s)>> \o ReplaceSub(Tail(s), sub, rep, ignore_case)

\* the chain of replacements on one text
StripSymbols(s) ==
    LET s1 == ReplaceSub(s, <<",">>, <<>>, FALSE)
        s2 == ReplaceSub(s1, <<"$">>, <<>>, FALSE)
        s3 == ReplaceSub(s2, <<Euro>>, <<>>, FALSE)
        s4 == ReplaceSub(s3, <<Lira>>, <<>>, FALSE)
        s5 == ReplaceSub(s4, <<"t", "l">>, <<>>, TRUE)
        s6 == ReplaceSub(s5, <<"u", "s", "d">>, <<>>, TRUE)
        s7 == ReplaceSub(s6, <<"(">>, <<"-">>, FALSE)
    IN  ReplaceSub(s7, <<")">>, <<>>, FALSE)

\* pd.to_numeric(errors="coerce") of one value
ToNumericValue(c) ==
    IF c.t = "num" THEN c
    ELSE IF c.t = "str"
    THEN LET f == PyFloat(Strip(c.s)) IN IF f.nan THEN NA ELSE Num(f)
    ELSE NA

Coerced(series) ==
    List([i \in 1..Len(series) |->
            LET a == AsString(series[i]) IN
            ToNumericValue(IF a.t = "str" THEN Txt(StripSymbols(a.s)) ELSE a)])

MinNumericPct == 70

\* the test on coerced.notna().mean()
NumericLike(coerced) ==
    FracAtLeast(NotNaMean(coerced), [num |-> MinNumericPct, den |-> 100])

\* the loop over df.columns, from column k on: <<numeric_cols, df>>
RECURSIVE ScanNumeric(_, _, _)
ScanNumeric(df, k, numeric_cols) ==
    IF k > Len(df.cols) THEN <<numeric_cols, df>>
    ELSE LET c == df.cols[k]
             series == Column(df, c)
         IN  IF IsNumericDtype(series) THEN ScanNumeric(df, k + 1, Append(numeric_cols, c))
             ELSE IF NumericLike(Coerced(series))
             THEN ScanNumeric(SetColumn(df, c, Coerced(series)), k + 1, Append(numeric_cols, c))
             ELSE ScanNumeric(df, k + 1, numeric_cols)

infer_numeric_columns(df) ==
    IF IsEmptyFrame(df) THEN <<(<<>>), df>> ELSE ScanNumeric(df, 1, <<>>)

(***************************************************************************)
(* Calls of infer_numeric_columns: one-column tables of up to              *)
(* MaxNumericRows rows of which any number are numeric texts and any       *)
(* number are missing (the others are words), a two-column table with a    *)
(* numeric column, and the empty tables.                                   *)
(***************************************************************************)
MaxNumericRows == 10

N_X == <<"x">>

N_Qty == <<"q", "t", "y">>

X_Dollar520 == Txt(<<"$", "5", ".", "2", "0">>)

X_Paren29 == Txt(<<"(", "2", ".", "9", ")">>)

X_Thousand == Txt(<<"1", ",", "2", "3", "4">>)

X_TenTL == Txt(<<"1", "0", " ", "T", "L">>)

NumericTexts == <<X_Dollar520, X_Paren29, X_Thousand, X_TenTL>>

\* n cells: k numeric texts, then m missing cells, then words
NumericColumn(n, k, m) ==
    List([i \in 1..n |->
            IF i <= k THEN NumericTexts[((i - 1) % Len(NumericTexts)) + 1]
            ELSE IF i <= k + m THEN NA ELSE X_Word])

NumericTable(n, k, m) ==
    Table(<<N_X>>, List([i \in 1..n |-> <<NumericColumn(n, k, m)[i]>>]))

QtyTable(k) ==
    Table(<<N_Qty, N_X>>,
          List([i \in 1..2 |-> <<Num(Float(i, 0)), NumericColumn(2, k, 0)[i]>>]))

InferNumericTables ==
    {NumericTable(n, k, m) : n \in 1..MaxNumericRows,
                             k \in 0..MaxNumericRows, m \in 0..MaxNumericRows}
    \cup {QtyTable(k) : k \in 0..2}
    \cup {NoTable, Table(<<>>, <<>>), Table(<<N_A>>, <<>>)}

InitInferNumeric ==
    /\ OthersIdle
    /\ op = "infer_numeric_columns"
    /\ arg \in InferNumericTables
    /\ arg_after = arg
    /\ ret = <<>>
    /\ done = FALSE

InferNumeric ==
    /\ op = "infer_numeric_columns"
    /\ ~done
    /\ ret' = infer_numeric_columns(arg_after)[1]
    /\ arg_after' = infer_numeric_columns(arg_after)[2]
    /\ done' = TRUE
    /\ UNCHANGED <<op, arg, cleanVars, amountVars>>

NextInferNumeric == InferNumeric

SpecInferNumeric == InitInferNumeric /\ [][NextInferNumeric]_vars

(***************************************************************************)
(* C13: infer_numeric_columns lists a column that is not typed numeric if  *)
(* and only if at least 70 percent of its non-missing values coerce to a   *)
(* number; a column in which every non-missing value coerces is listed     *)
(* however many of its cells are missing.                                  *)
(***************************************************************************)
Coercing(c) == CountNotNull(Coerced(Column(arg, c)))

NonMissing(c) == CountNotNull(Column(arg, c))

C13_NumericOfNonMissing ==
    (Called("infer_numeric_columns") /\ ~IsEmptyFrame(arg)) =>
        \A k \in 1..Len(arg.cols) :
            LET c == arg.cols[k] IN
            ~IsNumericDtype(Column(arg, c)) =>
                (InSeq(ret, c) <=> 10 * Coercing(c) >= 7 * NonMissing(c))

(***************************************************************************)
(* _normalize_columns                                                      *)
(***************************************************************************)
\* c2.split(): the maximal runs of characters that are not whitespace
RECURSIVE Words(_)
Words(s) ==
    LET t == LStrip(s) IN
    IF t = <<>> THEN <<>>
    ELSE LET n == IF \E i \in 1..Len(t) : t[i] \in Whitespace
                  THEN (CHOOSE i \in 1..Len(t) :
                            t[i] \in Whitespace /\ \A j \in 1..(i - 1) : t[j] \notin Whitespace) - 1
                  ELSE Len(t)
         IN  <<SubSeq(t, 1, n)>> \o Words(SubSeq(t, n + 1, Len(t)))

\* "_".join(words)
RECURSIVE JoinUnderscore(_)
JoinUnderscore(words) ==
    IF words = <<>> THEN <<>>
    ELSE IF Len(words) = 1 THEN words[1]
    ELSE words[1] \o <<"_">> \o JoinUnderscore(Tail(words))

\* ch.isalnum() or ch == "_"
IsAlnumOrUnderscore(ch) == ch \in LowerLetters \/ ch \in Digits \/ ch = "_"

\* the first loop's body: one label
NormalizeLabel(c) ==
    LET c1 == Lower(Strip(c))
        c2 == ReplaceChar(ReplaceChar(c1, "\n", " "), "\t", " ")
        c3 == JoinUnderscore(Words(c2))
    IN  SelectSeq(c3, IsAlnumOrUnderscore)

\* the second loop, "make unique": seen maps a name to its count of repeats
RECURSIVE MakeUnique(_, _)
MakeUnique(out, seen) ==
    IF out = <<>> THEN <<>>
    ELSE LET c == Head(out) IN
         IF c \notin DOMAIN seen
         THEN <<c>> \o MakeUnique(Tail(out), Dict(seen @@ (c :> 0)))
         ELSE <<c \o <<"_">> \o NatText(seen[c] + 1)>>
              \o MakeUnique(Tail(out), Dict([seen EXCEPT ![c] = @ + 1]))

_normalize_columns(cols) ==
    MakeUnique(List([i \in 1..Len(cols) |-> NormalizeLabel(cols[i])]), <<>>)

(***************************************************************************)
(* Calls of _normalize_columns: every single label of up to MaxLabelLen    *)
(* characters, three named labels, and every list of up to MaxLabels       *)
(* labels that repeat a name or look like a suffixed name.                 *)
(***************************************************************************)
MaxLabelLen == 3

MaxLabels == 3

LabelAlphabet == {"a", "B", "1", "_", "-", " ", "\t"}

Lb_OrderDate == <<"O", "r", "d", "e", "r", "-", "D", "a", "t", "e">>

Lb_UnderX == <<"_", "x", "_">>

Lb_ADashB == <<"a", " ", " ", "-", " ", " ", "b">>

SingleLabels == TextsUpTo(LabelAlphabet, MaxLabelLen) \cup {Lb_OrderDate, Lb_UnderX, Lb_ADashB}

RepeatPool ==
    { <<"a">>, <<"A", " ">>, <<"b">>, <<"a", "_", "1">>, <<"a", "_", "2">>,
      <<"a", "_", "1", "_", "1">> }

LabelLists ==
    {<<c>> : c \in SingleLabels} \cup SeqsUpTo(RepeatPool, MaxLabels)

InitNormalizeColumns ==
    /\ OthersIdle
    /\ op = "_normalize_columns"
    /\ arg \in LabelLists
    /\ arg_after = arg
    /\ ret = <<>>
    /\ done = FALSE

NormalizeColumns ==
    /\ op = "_normalize_columns"
    /\ ~done
    /\ ret' = _normalize_columns(arg)
    /\ done' = TRUE
    /\ UNCHANGED <<op, arg, arg_after, cleanVars, amountVars>>

NextNormalizeColumns == NormalizeColumns

SpecNormalizeColumns == InitNormalizeColumns /\ [][NextNormalizeColumns]_vars

(***************************************************************************)
(* C14: the names _normalize_columns returns are pairwise distinct, the    *)
(* k-th repeat of a normalized name being that name followed by _k.        *)
(***************************************************************************)
EarlierSame(i) ==
    Cardinality({j \in 1..(i - 1) : NormalizeLabel(arg[j]) = NormalizeLabel(arg[i])})

C14_UniqueNames ==
    Called("_normalize_columns") =>
        /\ Len(ret) = Len(arg)
        /\ \A i \in 1..Len(arg) :
              ret[i] = IF EarlierSame(i) = 0 THEN NormalizeLabel(arg[i])
                       ELSE NormalizeLabel(arg[i]) \o <<"_">> \o NatText(EarlierSame(i))
        /\ \A i \in 1..Len(ret) : \A j \in 1..Len(ret) : i # j => ret[i] # ret[j]

(***************************************************************************)
(* C15: before suffixing, _normalize_columns gives every label the token   *)
(* _normalize_col gives it.                                                *)
(***************************************************************************)
C15_SameAsNormalizeCol ==
    (Called("_normalize_columns") /\ Len(arg) = 1) => ret[1] = _normalize_col(arg[1])

(***************************************************************************)
(* basic_clean_dataframe.  out[c] is a table, not a column, when the name  *)
(* c stands over more than one column, and a table has no dtype: the loop  *)
(* over the columns then fails with an AttributeError.                     *)
(***************************************************************************)
Failed(kind) == [status |-> "raised", error |-> kind, value |-> <<>>]

Value(v) == [status |-> "returned", error |-> "", value |-> v]

HasRepeatedName(cols) ==
    \E i \in 1..Len(cols) : \E j \in 1..Len(cols) : i # j /\ cols[i] = cols[j]

\* out[c].astype("string").str.strip(), one value
StripCell(c) ==
    LET a == AsString(c) IN IF a.t = "str" THEN Txt(Strip(a.s)) ELSE a

IsObjectDtype(series) == ~IsNumericDtype(series) /\ ~IsDatetimeDtype(series)

\* the loop "strip object cells" over a table whose names are distinct
StripObjectCells(out) ==
    Table(out.cols,
          List([i \in 1..Len(out.rows) |->
              List([k \in 1..Len(out.cols) |->
                  IF IsObjectDtype(Column(out, out.cols[k]))
                  THEN StripCell(out.rows[i][k]) ELSE out.rows[i][k]])]))

basic_clean_dataframe(df) ==
    IF IsEmptyFrame(df) THEN Value(Table(<<>>, <<>>))
    ELSE LET cols == _normalize_columns(df.cols) IN
         IF HasRepeatedName(cols) THEN Failed("AttributeError")
         ELSE Value(StripObjectCells(Table(cols, DropEmptyRows(df.rows))))

(***************************************************************************)
(* pick_primary_numeric                                                    *)
(***************************************************************************)
priority ==
    << <<"a", "m", "o", "u", "n", "t">>, <<"r", "e", "v", "e", "n", "u", "e">>,
       <<"t", "o", "t", "a", "l">>, <<"p", "r", "i", "c", "e">>,
       <<"v", "i", "e", "w", "s">>,
       <<"w", "a", "t", "c", "h", "_", "t", "i", "m", "e">>,
       <<"i", "m", "p", "r", "e", "s", "s", "i", "o", "n", "s">>, <<"c", "t", "r">> >>

\* the pairs (p, c) of the two nested loops in which p in c, in loop order
PriorityHits(numeric_cols) ==
    {<<p, k>> \in (1..Len(priority)) \X (1..Len(numeric_cols)) :
        HasSub(numeric_cols[k], priority[p])}

\* a selection in which the position of the column outranks the keyword
FirstHit_ByColumn(hits) ==
    CHOOSE h \in hits :
        \A g \in hits : h[2] < g[2] \/ (h[2] = g[2] /\ h[1] <= g[1])

FirstHit(hits) ==
    CHOOSE h \in hits :
        \A g \in hits : h[1] < g[1] \/ (h[1] = g[1] /\ h[2] <= g[2])

\* max(numeric_cols, key=lambda c: df[c].notna().sum()): the first maximum
MostNonNull(df, numeric_cols) ==
    numeric_cols[CHOOSE k \in 1..Len(numeric_cols) :
        /\ \A j \in 1..Len(numeric_cols) :
              CountNotNull(Column(df, numeric_cols[k])) >= CountNotNull(Column(df, numeric_cols[j]))
        /\ \A j \in 1..(k - 1) :
              CountNotNull(Column(df, numeric_cols[k])) > CountNotNull(Column(df, numeric_cols[j]))]

pick_primary_numeric(df, numeric_cols) ==
    IF numeric_cols = <<>> THEN NoColumn
    ELSE IF PriorityHits(numeric_cols) # {}
    THEN Some(numeric_cols[FirstHit(PriorityHits(numeric_cols))[2]])
    ELSE Some(MostNonNull(df, numeric_cols))

(***************************************************************************)
(* compute_generic_analysis.  The result keeps the fields the notes and    *)
(* the trend depend on; numeric_summary and top_categories are kept as the *)
(* lists of the columns they describe.                                     *)
(***************************************************************************)
Note_Empty == "Empty file after cleaning (no rows)."

Note_Duplicates == "Removed duplicate rows."

Note_Missing == "High missingness detected."

Note_NoNumeric == "No numeric columns detected (or numeric-like)."

Note_NoDates == "Date column found, but no valid parsed dates for trend chart."

Note_NoTrend == "Trend chart skipped (missing date column or numeric metric)."

GenericAnalysisResult(rows, cols, missing_cells, missing_pct, duplicate_rows, date_col, primary_numeric_col, numeric_summary, top_categories, daily_trend, notes) ==
    [rows |-> rows, cols |-> cols, missing_cells |-> missing_cells,
     missing_pct |-> missing_pct, duplicate_rows |-> duplicate_rows,
     date_col |-> date_col, primary_numeric_col |-> primary_numeric_col,
     numeric_summary |-> numeric_summary, top_categories |-> top_categories,
     daily_trend |-> daily_trend, notes |-> notes]

EmptyResult ==
    GenericAnalysisResult(0, 0, 0, [num |-> 0, den |-> 1], 0, NoColumn, NoColumn,
                          <<>>, <<>>, <<>>, <<Note_Empty>>)

\* a + b on floats
AddF(a, b) ==
    LET e == IF a.e > b.e THEN a.e ELSE b.e IN
    Float(a.n * Pow10(e - a.e) + b.n * Pow10(e - b.e), e)

\* series.sum(): missing values are skipped
RECURSIVE SumF(_)
SumF(cells) ==
    IF cells = <<>> THEN Float(0, 0)
    ELSE IF IsNull(Head(cells)) THEN SumF(Tail(cells))
    ELSE AddF(Head(cells).v, SumF(Tail(cells)))

\* tmp.groupby("_date", as_index=False)[primary_num].sum(): one row per day,
\* days ascending
RECURSIVE GroupByDay(_, _, _)
GroupByDay(days, dates, values) ==
    IF days = {} THEN <<>>
    ELSE LET day == CHOOSE d \in days : \A x \in days : d <= x
             on_day == List([i \in 1..Len(dates) |-> ~IsNull(dates[i]) /\ dates[i].v.n = day])
         IN  <<[day |-> day, value |-> SumF(Masked(values, on_day))]>>
             \o GroupByDay(days \ {day}, dates, values)

\* the "daily trend" block: <<daily_trend, notes>>
DailyTrend(df, date_col, primary_num, notes) ==
    IF date_col # NoColumn /\ date_col # Some(<<>>)
       /\ primary_num # NoColumn /\ primary_num # Some(<<>>)
    THEN LET d == ToDatetime(Column(df, date_col[1]), FALSE)
             days == {d[i].v.n : i \in {j \in 1..Len(d) : ~IsNull(d[j])}}
         IN  IF days # {}
             THEN <<GroupByDay(days, d, Column(df, primary_num[1])), notes>>
             ELSE <<(<<>>), Append(notes, Note_NoDates)>>
    ELSE <<(<<>>), Append(notes, Note_NoTrend)>>

\* text_cols[:3]
TextColumns(df) ==
    LET text_cols == SelectSeq(df.cols, LAMBDA c : IsObjectDtype(Column(df, c)))
    IN  SubSeq(text_cols, 1, IF Len(text_cols) < 3 THEN Len(text_cols) ELSE 3)

CountMissing(df) ==
    Cardinality({<<i, k>> \in (1..Len(df.rows)) \X (1..Len(df.cols)) : IsNull(df.rows[i][k])})

\* from "notes: List[str] = []" on
AnalyzeTyped(df, rows, cols, missing_cells, duplicate_rows, date_col, numeric_cols, primary_num) ==
    LET missing_pct == [num |-> missing_cells, den |-> IF rows * cols > 1 THEN rows * cols ELSE 1]
        notes1 == IF duplicate_rows > 0 THEN <<Note_Duplicates>> ELSE <<>>
        notes2 == IF FracGreater(missing_pct, [num |-> 1, den |-> 10])
                  THEN Append(notes1, Note_Missing) ELSE notes1
        notes3 == IF numeric_cols # <<>> THEN notes2 ELSE Append(notes2, Note_NoNumeric)
        trend == DailyTrend(df, date_col, primary_num, notes3)
    IN  Value(<<df,
                GenericAnalysisResult(rows, cols, missing_cells, missing_pct, duplicate_rows,
                                      date_col, primary_num, numeric_cols, TextColumns(df),
                                      trend[1], trend[2])>>)

\* from "infer types" on; numeric is what infer_numeric_columns returned and
\* left of df
AnalyzeInferred(df, rows, cols, missing_cells, duplicate_rows, date_col, numeric) ==
    AnalyzeTyped(numeric[2], rows, cols, missing_cells, duplicate_rows, date_col,
                 numeric[1], pick_primary_numeric(numeric[2], numeric[1]))

\* from "df = df.drop_duplicates()" on
AnalyzeDeduped(df, duplicate_rows) ==
    AnalyzeInferred(df, Len(df.rows), Len(df.cols), CountMissing(df), duplicate_rows,
                    infer_date_column(df), infer_numeric_columns(df))

AnalyzeCleaned(df) ==
    IF IsEmptyFrame(df) THEN Value(<<df, EmptyResult>>)
    ELSE AnalyzeDeduped(drop_duplicates(df), Len(df.rows) - Len(drop_duplicates(df).rows))

compute_generic_analysis(raw) ==
    LET cleaned == basic_clean_dataframe(raw) IN
    IF cleaned.status = "raised" THEN cleaned ELSE AnalyzeCleaned(cleaned.value)

(***************************************************************************)
(* Calls of compute_generic_analysis: tables of up to MaxAnalyzeRows rows  *)
(* under a date and an amount label (texts), under a date and a quantity   *)
(* label (numbers), under labels that normalize to the same name, and the  *)
(* missing and the empty tables.                                           *)
(***************************************************************************)
MaxAnalyzeRows == 3

L_Qty == <<"Q", "t", "y">>

L_LowerA == <<"a">>

L_UpperA == <<"A">>

L_A1 == <<"a", "_", "1">>

AmountRows ==
    { <<D_Iso, X_Dollar520>>, <<D_Iso, X_Paren29>>, <<D_Ambiguous, X_Thousand>>,
      <<D_Iso, NA>>, <<NA, X_Dollar520>>, <<X_Word, X_Word>>, <<NA, NA>> }

QtyRows ==
    { <<D_Iso, Num(Float(1, 0))>>, <<D_Ambiguous, Num(Float(25, 1))>>, <<X_Word, NA>>, <<NA, NA>> }

NameRows == { <<X_Word, X_Word, X_Word>>, <<NA, NA, NA>> }

AnalyzeTables ==
    {Table(<<L_OrderDate, L_Amount>>, rows) : rows \in SeqsUpTo(AmountRows, MaxAnalyzeRows)}
    \cup {Table(<<L_OrderDate, L_Qty>>, rows) : rows \in SeqsUpTo(QtyRows, MaxAnalyzeRows)}
    \cup {Table(h, rows) : h \in {<<L_LowerA, L_UpperA, L_A1>>, <<L_LowerA, L_UpperA, L_Qty>>},
                           rows \in SeqsUpTo(NameRows, 2)}
    \cup {NoTable, Table(<<>>, <<>>)}

InitAnalyze ==
    /\ OthersIdle
    /\ op = "compute_generic_analysis"
    /\ arg \in AnalyzeTables
    /\ arg_after = arg
    /\ ret = <<>>
    /\ done = FALSE

\* basic_clean_dataframe works on df.copy(): df_raw is only read
Analyze ==
    /\ op = "compute_generic_analysis"
    /\ ~done
    /\ ret' = compute_generic_analysis(arg)
    /\ arg_after' = arg_after
    /\ done' = TRUE
    /\ UNCHANGED <<op, arg, cleanVars, amountVars>>

NextAnalyze == Analyze

SpecAnalyze == InitAnalyze /\ [][NextAnalyze]_vars

(***************************************************************************)
(* C16: compute_generic_analysis returns a (table, result) pair for every  *)
(* input table, and when no row survives cleaning the result has rows = 0, *)
(* cols = 0, no date column, no primary metric, an empty daily trend and   *)
(* at least one note.                                                      *)
(***************************************************************************)
NoRowSurvives == ~arg.is_table \/ DropEmptyRows(arg.rows) = <<>>

C16_NeverRaises ==
    Called("compute_generic_analysis") =>
        /\ ret.status = "returned"
        /\ NoRowSurvives =>
              /\ ret.value[2].rows = 0
              /\ ret.value[2].cols = 0
              /\ ret.value[2].date_col = NoColumn
              /\ ret.value[2].primary_numeric_col = NoColumn
              /\ ret.value[2].daily_trend = <<>>
              /\ Len(ret.value[2].notes) >= 1

(***************************************************************************)
(* C17: no table transformation mutates the table its caller passed in:    *)
(* when infer_numeric_columns has returned, every cell and every column    *)
(* label of the argument table equals its value before the call.           *)
(***************************************************************************)
C17_ArgumentUnchanged ==
    Called("infer_numeric_columns") => arg_after = arg

(***************************************************************************)
(* Calls of _normalize_payment_status, and of clean_sales_dataframe on a   *)
(* table whose payment column holds the same cells: every recognized word  *)
(* in some spelling, words that are not recognized, blank text, whole and  *)
(* fractional numbers and the missing value, under two defaults.           *)
(***************************************************************************)
MaxPaymentCells == 2

L_Status == <<"S", "t", "a", "t", "u", "s">>

T_NotSet == <<"n", "/", "a">>

PaymentDefaults == {T_Unknown, T_NotSet}

PaymentTexts ==
    { <<"p", "a", "i", "d">>, <<" ", "Y", "e", "s", " ">>, <<"Y">>,
      <<"T", "R", "U", "E">>, <<"1">>,
      <<"U", "n", "p", "a", "i", "d">>, <<"n", "o">>, <<"N", " ">>,
      <<"f", "a", "l", "s", "e">>, <<"0">>,
      <<" ", "P", "E", "N", "D", "I", "N", "G">>,
      <<"m", "a", "y", "b", "e">>, <<"1", ".", "0">>, <<" ", " ">>, <<>> }

PaymentNumbers == {Float(1, 0), Float(0, 0), [nan |-> FALSE, n |-> 10, e |-> 1], Float(2, 0)}

PaymentCells ==
    {Txt(s) : s \in PaymentTexts} \cup {Num(f) : f \in PaymentNumbers} \cup {NA}

RepeatedPaymentCells ==
    {Num(Float(1, 0)), NA, Txt(<<" ", " ">>),
     Txt(<<" ", "P", "E", "N", "D", "I", "N", "G">>), Txt(<<"m", "a", "y", "b", "e">>)}

PaymentSeries ==
    {<<c>> : c \in PaymentCells}
        \cup (SeqsUpTo(RepeatedPaymentCells, MaxPaymentCells) \ {<<>>})

PaymentTable(series) ==
    Table(<<L_OrderDate, L_Total, L_Status>>,
          List([i \in 1..Len(series) |-> <<X_Jan2, X_Dollar10, series[i]>>]))

InitPayment ==
    /\ \E series \in PaymentSeries, default \in PaymentDefaults :
          /\ arg = [series |-> series, default |-> default]
          /\ df_raw = PaymentTable(series)
          /\ cfg = [DefaultConfig EXCEPT !.default_payment_status = default]
    /\ arg_after = arg
    /\ op = "_normalize_payment_status"
    /\ ret = <<>>
    /\ done = FALSE
    /\ clean_ret = Pending
    /\ clean_loc = NoLocals
    /\ amt_x = NA
    /\ amt_ret = NoneF
    /\ amt_done = FALSE

NormalizePaymentStatus ==
    /\ op = "_normalize_payment_status"
    /\ ~done
    /\ ret' = _normalize_payment_status(arg.series, arg.default)
    /\ done' = TRUE
    /\ UNCHANGED <<op, arg, arg_after, cleanVars, amountVars>>

NextPayment == NormalizePaymentStatus \/ Clean

SpecPayment == InitPayment /\ [][NextPayment]_vars

(***************************************************************************)
(* C18: the payment status normalizer returns, for every cell, Paid when   *)
(* the trimmed lowercased text of the cell is paid, yes, y, true or 1,     *)
(* Unpaid when it is unpaid, no, n, false, 0 or pending, and the           *)
(* configured default otherwise (missing and blank cells included); the    *)
(* text of a number is its decimal notation.  Every payment_status of the  *)
(* table clean returns is Paid, Unpaid or the default.                     *)
(***************************************************************************)
PaidWords ==
    { <<"p", "a", "i", "d">>, <<"y", "e", "s">>, <<"y">>, <<"t", "r", "u", "e">>, <<"1">> }

UnpaidWords ==
    { <<"u", "n", "p", "a", "i", "d">>, <<"n", "o">>, <<"n">>,
      <<"f", "a", "l", "s", "e">>, <<"0">>, <<"p", "e", "n", "d", "i", "n", "g">> }

TextOfCell(c) == IF c.t = "num" THEN NumText(c.v) ELSE c.s

StatusFor(c, default) ==
    IF c.t = "na" THEN Txt(default)
    ELSE IF Lower(Strip(TextOfCell(c))) \in PaidWords THEN Txt(T_Paid)
    ELSE IF Lower(Strip(TextOfCell(c))) \in UnpaidWords THEN Txt(T_Unpaid)
    ELSE Txt(default)

C18_PaymentThreeValued ==
    /\ Called("_normalize_payment_status") =>
          /\ Len(ret) = Len(arg.series)
          /\ \A i \in 1..Len(ret) : ret[i] = StatusFor(arg.series[i], arg.default)
    /\ ReturnedOk =>
          /\ \A k \in 1..Len(clean_ret.out.rows) :
                Column(clean_ret.out, PaymentStatus)[k]
                    \in {Txt(T_Paid), Txt(T_Unpaid), Txt(cfg.default_payment_status)}

C18_Witness ==
    /\ Called("_normalize_payment_status")
    /\ ReturnedOk
    /\ arg.default = T_NotSet
    /\ arg.series = <<Num(Float(1, 0)), Txt(<<" ", " ">>)>>
    /\ ret = <<Txt(T_Paid), Txt(T_NotSet)>>
    /\ Column(clean_ret.out, PaymentStatus) = ret

(***************************************************************************)
(* C19: for every text over digits, ',', '.' and '-', the amount parser    *)
(* reads the separators as follows: when both ',' and '.' occur, the kind  *)
(* occurring rightmost is the decimal separator and the other kind is      *)
(* removed; when only ',' occurs, the last comma is the decimal separator  *)
(* exactly when the text after it consists of exactly 2 digits, and        *)
(* otherwise all commas are removed.  The value returned is the value of   *)
(* the text so rewritten.                                                  *)
(***************************************************************************)
OverAmountKeep(s) == \A i \in 1..Len(s) : s[i] \in AmountKeep

TwoDigits(s) == Len(s) = 2 /\ AllDigits(s)

SeparatorsAsStated(s) ==
    IF Contains(s, ",") /\ Contains(s, ".")
    THEN IF RFind(s, ",") > RFind(s, ".")
         THEN ReplaceChar(Remove(s, "."), ",", ".")
         ELSE Remove(s, ",")
    ELSE IF Contains(s, ",")
         THEN IF TwoDigits(LastPart(s))
              THEN JoinedFront(s) \o <<".">> \o LastPart(s)
              ELSE Remove(s, ",")
         ELSE s

C19_SeparatorRule ==
    (amt_done /\ amt_x.t = "str" /\ OverAmountKeep(amt_x.s)) =>
        amt_ret = PyFloat(MinusSigns(SeparatorsAsStated(amt_x.s)))

(***************************************************************************)
(* C20: when the text of an amount, after its doubled minus signs are      *)
(* collapsed, still holds more than one minus sign, all of them are        *)
(* stripped; if what is left is an unsigned decimal number (digits with at *)
(* most one '.'), the parser returns that magnitude, not null, negated     *)
(* only for a parenthesized input.  The value returned is negative only    *)
(* when the input was parenthesized or the collapsed text holds a single,  *)
(* leading minus.                                                          *)
(***************************************************************************)
\* the text of the amount when the minus signs are looked at
SeparatedText(x) ==
    LET s0 == Strip(x)
        s1 == Strip(IF Parenthesized(s0) THEN Remove(Remove(s0, "("), ")") ELSE s0)
    IN  Separators(KeepAmountChars(s1))

Collapsed(x) == ReplaceDoubleMinus(SeparatedText(x))

ManyMinus(x) == Count(Collapsed(x), "-") > 1

Magnitude(x) == UnsignedFloat(Remove(Collapsed(x), "-"))

IsNegative(f) == ~f.nan /\ f.n < 0

SingleLeadingMinus(x) ==
    /\ Count(Collapsed(x), "-") = 1
    /\ Head(Collapsed(x)) = "-"

AmountTextParsed ==
    /\ amt_done
    /\ amt_x.t = "str"
    /\ Strip(Lower(Strip(amt_x.s))) \notin _BAD_AMOUNT_TOKENS

C20_MinusSigns ==
    AmountTextParsed =>
        /\ (ManyMinus(amt_x.s) /\ Magnitude(amt_x.s) # NoneF) =>
              /\ amt_ret # NoneF
              /\ amt_ret = IF Parenthesized(amt_x.s) THEN NegF(Magnitude(amt_x.s))
                           ELSE Magnitude(amt_x.s)
        /\ IsNegative(amt_ret) =>
              Parenthesized(amt_x.s) \/ SingleLeadingMinus(amt_x.s)

C20_Witness ==
    /\ AmountTextParsed
    /\ amt_x = Txt(<<"2", "-", "5", "-", "2">>)
    /\ ManyMinus(amt_x.s)
    /\ amt_ret = Float(252, 0)

\* C20 as the specification states it: every text with more than one minus
\* sign left parses to a non-null magnitude
C20_AsStated ==
    AmountTextParsed =>
        /\ ManyMinus(amt_x.s) =>
              /\ amt_ret # NoneF
              /\ ~Parenthesized(amt_x.s) => ~IsNegative(amt_ret)
        /\ IsNegative(amt_ret) =>
              Parenthesized(amt_x.s) \/ SingleLeadingMinus(amt_x.s)

(***************************************************************************)
(* Calls of pick_primary_numeric on tables of two rows with up to          *)
(* MaxPickCols distinctly named columns and the numeric columns inferred   *)
(* from them: names holding one keyword, two keywords, a keyword in        *)
(* capitals or none, a column of text, and columns with zero or one        *)
(* missing cell.                                                           *)
(***************************************************************************)
MaxPickCols == 3

N_Amount == <<"a", "m", "o", "u", "n", "t">>

N_TotalAmount == <<"t", "o", "t", "a", "l", "_", "a", "m", "o", "u", "n", "t">>

N_Total == <<"t", "o", "t", "a", "l">>

N_Price == <<"p", "r", "i", "c", "e">>

N_AmountCapital == <<"A", "m", "o", "u", "n", "t">>

N_Note == <<"n", "o", "t", "e">>

PickNames == {N_Amount, N_TotalAmount, N_Total, N_Price, N_Qty, N_AmountCapital, N_Note}

PickHeaders ==
    {h \in SeqsUpTo(PickNames, MaxPickCols) :
        \A i \in 1..Len(h) : \A j \in 1..Len(h) : i # j => h[i] # h[j]}

MissingCounts == {0, 1}

\* the cell of row i in a column named name of which the first missing cells are missing
PickCell(name, missing, i) ==
    IF name = N_Note THEN X_Word
    ELSE IF i <= missing THEN NA
    ELSE Num(Float(i, 0))

PickTable(h, missing) ==
    Table(h, List([i \in 1..2 |-> List([k \in 1..Len(h) |-> PickCell(h[k], missing[k], i)])]))

PickTables ==
    UNION {{PickTable(h, missing) : missing \in [1..Len(h) -> MissingCounts]} : h \in PickHeaders}

InitPickPrimary ==
    /\ OthersIdle
    /\ op = "pick_primary_numeric"
    /\ \E df \in PickTables :
          arg = [df |-> df, numeric_cols |-> infer_numeric_columns(df)[1]]
    /\ arg_after = arg
    /\ ret = <<>>
    /\ done = FALSE

PickPrimary ==
    /\ op = "pick_primary_numeric"
    /\ ~done
    /\ ret' = pick_primary_numeric(arg.df, arg.numeric_cols)
    /\ done' = TRUE
    /\ UNCHANGED <<op, arg, arg_after, cleanVars, amountVars>>

NextPickPrimary == PickPrimary

SpecPickPrimary == InitPickPrimary /\ [][NextPickPrimary]_vars

(***************************************************************************)
(* C21: over a non-empty list of inferred numeric columns, if some column  *)
(* name contains one of the keywords amount, revenue, total, price, views, *)
(* watch_time, impressions, ctr, pick_primary_numeric returns the first    *)
(* column in column order among those containing the earliest such keyword *)
(* of that order; otherwise it returns the numeric column with the most    *)
(* non-missing values, the first in column order on ties; with no numeric  *)
(* column it returns none.                                                 *)
(***************************************************************************)
MetricKeywords ==
    << <<"a", "m", "o", "u", "n", "t">>, <<"r", "e", "v", "e", "n", "u", "e">>,
       <<"t", "o", "t", "a", "l">>, <<"p", "r", "i", "c", "e">>, <<"v", "i", "e", "w", "s">>,
       <<"w", "a", "t", "c", "h", "_", "t", "i", "m", "e">>,
       <<"i", "m", "p", "r", "e", "s", "s", "i", "o", "n", "s">>, <<"c", "t", "r">> >>

\* the positions in the numeric columns of the names containing keyword p
ColumnsWith(p) ==
    {k \in 1..Len(arg.numeric_cols) : HasSub(arg.numeric_cols[k], MetricKeywords[p])}

KeywordsFound == {p \in 1..Len(MetricKeywords) : ColumnsWith(p) # {}}

Least(S) == CHOOSE x \in S : \A y \in S : x <= y

NonMissingIn(k) == CountNotNull(Column(arg.df, arg.numeric_cols[k]))

Fullest ==
    {k \in 1..Len(arg.numeric_cols) :
        \A j \in 1..Len(arg.numeric_cols) : NonMissingIn(k) >= NonMissingIn(j)}

C21_PrimaryMetric ==
    Called("pick_primary_numeric") =>
        IF arg.numeric_cols = <<>> THEN ret = NoColumn
        ELSE IF KeywordsFound # {}
        THEN ret = Some(arg.numeric_cols[Least(ColumnsWith(Least(KeywordsFound)))])
        ELSE ret = Some(arg.numeric_cols[Least(Fullest)])

C21_Witness ==
    /\ Called("pick_primary_numeric")
    /\ arg.numeric_cols = <<N_Price, N_Total, N_TotalAmount>>
    /\ ret = Some(N_TotalAmount)

(***************************************************************************)
(* C22: when compute_generic_analysis finds a date column and a primary    *)
(* metric, the daily trend holds one entry per calendar day, with the sum  *)
(* of the metric over exactly the rows whose date parses to that day, and  *)
(* whenever a row is left out because its date does not parse, the notes   *)
(* hold an entry reporting it, also when other rows do parse.              *)
(***************************************************************************)
Analyzed == Called("compute_generic_analysis") /\ ret.status = "returned"

TrendDue ==
    /\ Analyzed
    /\ ret.value[2].date_col # NoColumn
    /\ ret.value[2].primary_numeric_col # NoColumn

\* the dates of the rows of the table returned, as the trend block parses them
TrendDates == ToDatetime(Column(ret.value[1], ret.value[2].date_col[1]), FALSE)

TrendMetric == Column(ret.value[1], ret.value[2].primary_numeric_col[1])

TrendDays == {TrendDates[i].v.n : i \in {j \in 1..Len(TrendDates) : ~IsNull(TrendDates[j])}}

MetricOn(day) ==
    SumF(SelectSeq(
        List([i \in 1..Len(TrendDates) |->
                IF ~IsNull(TrendDates[i]) /\ TrendDates[i].v.n = day THEN TrendMetric[i] ELSE NA]),
        LAMBDA c : ~IsNull(c)))

\* the rows holding a date text that does not parse
LeftOut ==
    {i \in 1..Len(TrendDates) :
        /\ ~IsNull(Column(ret.value[1], ret.value[2].date_col[1])[i])
        /\ IsNull(TrendDates[i])}

OtherNotes == {Note_Duplicates, Note_Missing, Note_NoNumeric, Note_NoTrend, Note_Empty}

ReportsLeftOut ==
    \E k \in 1..Len(ret.value[2].notes) : ret.value[2].notes[k] \notin OtherNotes

C22_DailyAggregate ==
    TrendDue =>
        LET trend == ret.value[2].daily_trend IN
        /\ Len(trend) = Cardinality(TrendDays)
        /\ \A day \in TrendDays :
              \E k \in 1..Len(trend) : trend[k] = [day |-> day, value |-> MetricOn(day)]
        /\ LeftOut # {} => ReportsLeftOut

(***************************************************************************)
(* C23: every successful clean under invalid_date_policy drop and          *)
(* invalid_amount_policy drop has rows_after = rows_before -               *)
(* empty_rows_dropped - invalid_dates - invalid_amounts -                  *)
(* duplicates_removed, invalid_amounts counting only the rows that         *)
(* survived the date drop; in every successful clean the six counters are  *)
(* not negative and rows_after <= rows_before.                             *)
(***************************************************************************)
BothDrop == cfg.invalid_date_policy = "drop" /\ cfg.invalid_amount_policy = "drop"

RowCounters ==
    {clean_ret.summary.rows_before, clean_ret.summary.rows_after,
     clean_ret.summary.empty_rows_dropped, clean_ret.summary.invalid_dates,
     clean_ret.summary.invalid_amounts, clean_ret.summary.duplicates_removed}

C23_RowAccounting ==
    ReturnedOk =>
        /\ \A n \in RowCounters : n >= 0
        /\ clean_ret.summary.rows_after <= clean_ret.summary.rows_before
        /\ BothDrop =>
              /\ clean_ret.summary.rows_after =
                    clean_ret.summary.rows_before - clean_ret.summary.empty_rows_dropped
                      - clean_ret.summary.invalid_dates - clean_ret.summary.invalid_amounts
                      - clean_ret.summary.duplicates_removed
              /\ clean_ret.summary.invalid_amounts =
                    Cardinality({i \in RawRows : UnparseableAmount(i) /\ SurvivesDates(i)})

C23_Witness ==
    /\ ReturnedOk
    /\ BothDrop
    /\ clean_ret.summary.rows_before = 3
    /\ clean_ret.summary.empty_rows_dropped = 1
    /\ clean_ret.summary.invalid_dates = 1
    /\ clean_ret.summary.invalid_amounts = 0
    /\ clean_ret.summary.duplicates_removed = 0
    /\ clean_ret.summary.rows_after = 1
    /\ \E i \in RawRows : UnparseableAmount(i) /\ ~SurvivesDates(i)

====
